---- MODULE Spec2Model ----
(***************************************************************************)
(* PLTX v2 container: the async writer (AsyncPltWriter), the reader        *)
(* (PltReader) and the signal registry (ReaderManager), modelled from      *)
(* src/src/core/io/pltx_convertion.py and src/core/reader.py.              *)
(*                                                                         *)
(* Files are sequences of bytes (naturals below 256); offsets are 0-based  *)
(* byte offsets as in the source.  struct "<I", "<H", "<Q" are little      *)
(* endian unsigned integers.  A float64 ("<d") is modelled by the 8-byte   *)
(* little-endian image of an integer-valued timestamp or value: like       *)
(* IEEE-754 binary64 it is a bijection between the values used and 8-byte  *)
(* strings.  Text is ASCII, so str.encode("utf-8") is the list of its      *)
(* character codes.                                                        *)
(***************************************************************************)
EXTENDS Integers, Sequences, FiniteSets, TLC

\* ---------------------------------------------------------------- bounds
MaxRecords == 3        \* records recorded in one session
NumProducers == 2      \* record_* calls that may be in progress at once
ChunkRecords == 2      \* the chunk_records argument of the constructor
MaxTs == 2             \* timestamps are drawn from 1..MaxTs
MaxFail == 1           \* injected I/O failures while assembling .part
MaxAttempt == 3        \* finalize attempts the call stack holds (recursion limit)
MaxSealedChunks == 2   \* chunks of a sealed file handed to the reader
MaxExplicit == 1       \* signals registered by add_signal_meta with a unit
MaxAssigned == 6       \* public names handed out by read_file calls

\* ------------------------------------------------------- program constants
MAGIC == <<80, 76, 84, 88>>          \* b"PLTX"
CHUNK_MAGIC == <<67, 72, 78, 75>>    \* b"CHNK"
INDEX_MAGIC == <<73, 68, 88, 84>>    \* b"IDXT"
FOOTER_MAGIC == <<70, 84, 69, 82>>   \* b"FTER"
COMP_NONE == 0
COMP_ZLIB == 1
COMP_LZ4 == 2
COMP_ZSTD == 3
RECORD_SIZE == 16          \* struct.calcsize("<dd")
CHUNK_HDR_SIZE == 32       \* struct.calcsize("<IIIIdd")
HEADER_PREFIX_SIZE == 16   \* struct.calcsize("<4sBBdH")
INDEX_ENTRY_SIZE == 28     \* struct.calcsize("<IQdd")
FOOTER_SIZE == 12          \* struct.calcsize("<4sQ")
version == 2
PosInf == 255              \* float("inf"): above every timestamp
NegInf == -1               \* float("-inf"): below every timestamp

\* ------------------------------------------------------------ byte strings
RECURSIVE LE(_, _)
\* struct.pack of an unsigned little-endian integer of n bytes
LE(v, n) == IF n = 0 THEN <<>> ELSE <<v % 256>> \o LE(v \div 256, n - 1)

\* the i-th byte of bs as a digit, 0 beyond its end
ByteAt(bs, i) == IF i <= Len(bs) THEN bs[i] ELSE 0

\* struct.unpack of an unsigned little-endian integer; a value of 2^24 or
\* more (larger than every length, offset and timestamp that occurs) is
\* given as 2^30
UnLE(bs) ==
    IF \E i \in 4 .. Len(bs) : bs[i] # 0 THEN 2^30
    ELSE ByteAt(bs, 1) + 256 * ByteAt(bs, 2) + 65536 * ByteAt(bs, 3)

\* f.seek(pos); f.read(n): short at the end of the file, empty beyond it
ReadAt(f, pos, n) ==
    SubSeq(f, pos + 1, IF pos + n <= Len(f) THEN pos + n ELSE Len(f))

RECURSIVE SumFrom(_, _)
\* the sum of the bytes of bs from the i-th on, eight at a time
SumFrom(bs, i) ==
    IF i > Len(bs) THEN 0
    ELSE IF i + 7 > Len(bs) THEN bs[i] + SumFrom(bs, i + 1)
    ELSE bs[i] + bs[i + 1] + bs[i + 2] + bs[i + 3] + bs[i + 4] + bs[i + 5]
           + bs[i + 6] + bs[i + 7] + SumFrom(bs, i + 8)

SumBytes(bs) == SumFrom(bs, 1)

\* ------------------------------------------------------------------ codec
\* The optional backends are absent (zstd = None, lz4f = None), so every
\* code but COMP_NONE falls through to zlib.
CompressionNames == {"none", "zstd", "lz4", "zlib"}

_pick_compression(name) ==
    IF name = "none" THEN COMP_NONE ELSE COMP_ZLIB

\* zlib.compress as a stored stream: the 2-byte zlib header, the data, and
\* a 4-byte checksum trailer (Adler-32 abstracted to 1 + the byte sum).
zlib_compress(data) == <<120, 156>> \o data \o LE(1 + SumBytes(data), 4)

_compress(data, c) == IF c = COMP_NONE THEN data ELSE zlib_compress(data)

\* zlib.decompress: [ok, data]; ok is FALSE where zlib raises zlib.error
zlib_decompress(data) ==
    IF Len(data) < 6 \/ SubSeq(data, 1, 2) # <<120, 156>>
    THEN [ok |-> FALSE, data |-> <<>>]
    ELSE LET body == SubSeq(data, 3, Len(data) - 4)
             sum == UnLE(SubSeq(data, Len(data) - 3, Len(data)))
         IN IF sum = 1 + SumBytes(body)
            THEN [ok |-> TRUE, data |-> body]
            ELSE [ok |-> FALSE, data |-> <<>>]

_decompress(data, c) ==
    IF c = COMP_NONE THEN [ok |-> TRUE, data |-> data] ELSE zlib_decompress(data)

\* ----------------------------------------------------------- chunk frames
\* A record is <<ts, val>>; struct.pack("<dd", ts, val).
PackRecord(r) == LE(r[1], 8) \o LE(r[2], 8)

RECURSIVE PackRecords(_)
PackRecords(recs) ==
    IF recs = <<>> THEN <<>> ELSE PackRecord(Head(recs)) \o PackRecords(Tail(recs))

RECURSIVE MinTs(_, _)
\* the running minimum of _append_chunk_to_tmp, started at float("inf")
MinTs(recs, cur) ==
    IF recs = <<>> THEN cur
    ELSE MinTs(Tail(recs), IF Head(recs)[1] < cur THEN Head(recs)[1] ELSE cur)

\* faulty variant of MaxTsOf: the timestamp of the last record, as if the
\* snapshot were sorted by time
MaxTsOfLast(recs, cur) == IF recs = <<>> THEN cur ELSE recs[Len(recs)][1]

RECURSIVE MaxTsOf(_, _)
\* the running maximum of _append_chunk_to_tmp, started at float("-inf")
MaxTsOf(recs, cur) ==
    IF recs = <<>> THEN cur
    ELSE MaxTsOf(Tail(recs), IF Head(recs)[1] > cur THEN Head(recs)[1] ELSE cur)

\* comp: the compressed payload of a snapshot
ChunkPayload(recs, c) == _compress(PackRecords(recs), c)

\* hdr: CHNK, then sid, n, raw_len, comp_len, min_ts, max_ts
ChunkHdr(sid, recs, c) ==
    CHUNK_MAGIC \o LE(sid, 4) \o LE(Len(recs), 4)
      \o LE(Len(PackRecords(recs)), 4) \o LE(Len(ChunkPayload(recs, c)), 4)
      \o LE(MinTs(recs, PosInf), 8) \o LE(MaxTsOf(recs, NegInf), 8)

\* the fields of a chunk header read from CHUNK_HDR_SIZE bytes
UnpackChunkHdr(h) ==
    [sid |-> UnLE(SubSeq(h, 1, 4)), n |-> UnLE(SubSeq(h, 5, 8)),
     raw_len |-> UnLE(SubSeq(h, 9, 12)), comp_len |-> UnLE(SubSeq(h, 13, 16)),
     mn |-> UnLE(SubSeq(h, 17, 24)), mx |-> UnLE(SubSeq(h, 25, 32))]

\* ------------------------------------------------------------ file header
\* _wstr: a u16 length, then the encoded text
_wstr(s) == LE(Len(s), 2) \o s

\* one per-signal metadata record of the header
MetaRecord(sid, meta) ==
    LE(sid, 4) \o _wstr(meta.name) \o _wstr(meta.unit)
      \o _wstr(meta.description) \o _wstr(meta.source)

SetMin(S) == CHOOSE x \in S : \A y \in S : x <= y

RECURSIVE KeysDescending(_)
\* faulty variant of SortedKeys: the keys in descending order
KeysDescending(S) ==
    IF S = {} THEN <<>>
    ELSE LET mx == CHOOSE x \in S : \A y \in S : x >= y
         IN <<mx>> \o KeysDescending(S \ {mx})

RECURSIVE SortedKeys(_)
\* sorted(self._signals_by_id.items(), key=lambda kv: kv[0]), the keys of it
SortedKeys(S) ==
    IF S = {} THEN <<>> ELSE <<SetMin(S)>> \o SortedKeys(S \ {SetMin(S)})

RECURSIVE MetaRecords(_, _)
MetaRecords(sids, by_id) ==
    IF sids = <<>> THEN <<>>
    ELSE MetaRecord(Head(sids), by_id[Head(sids)]) \o MetaRecords(Tail(sids), by_id)

\* the bytes _write_header_to_final writes for the signals sorted by sid
_write_header_to_final(c, cr, by_id) ==
    MAGIC \o <<version, c>> \o LE(cr, 8) \o LE(Cardinality(DOMAIN by_id), 2)
      \o MetaRecords(SortedKeys(DOMAIN by_id), by_id)

\* --------------------------------------------------- temp scan and index
RECURSIVE ScanFrom(_, _, _)
\* the loop of _scan_tmp_for_index_entries from file position pos;
\* ok is FALSE where it raises ValueError("Temp file corrupted")
ScanFrom(f, pos, entries) ==
    LET mg == ReadAt(f, pos, 4)
        hb == ReadAt(f, pos + 4, CHUNK_HDR_SIZE)
        h == UnpackChunkHdr(hb)
    IN IF mg = <<>> THEN [ok |-> TRUE, entries |-> entries]
       ELSE IF mg # CHUNK_MAGIC THEN [ok |-> FALSE, entries |-> <<>>]
       ELSE IF Len(hb) # CHUNK_HDR_SIZE THEN [ok |-> FALSE, entries |-> <<>>]
       ELSE ScanFrom(f, pos + 4 + CHUNK_HDR_SIZE + h.comp_len,
                     Append(entries,
                            [sid |-> h.sid,
                             total_size |-> 4 + CHUNK_HDR_SIZE + h.comp_len,
                             mn |-> h.mn, mx |-> h.mx, comp_len |-> h.comp_len]))

_scan_tmp_for_index_entries(f) == ScanFrom(f, 0, <<>>)

\* struct.pack(INDEX_ENTRY_FMT, sid, off, mn, mx)
PackIndexEntry(e) == LE(e.sid, 4) \o LE(e.off, 8) \o LE(e.mn, 8) \o LE(e.mx, 8)

RECURSIVE PackIndexEntries(_)
PackIndexEntries(es) ==
    IF es = <<>> THEN <<>> ELSE PackIndexEntry(Head(es)) \o PackIndexEntries(Tail(es))

\* IDXT, the entry count and the entries, then FTER and the index offset
\* faulty variant of IndexAndFooter: the footer records the position after
\* the index magic instead of the start of the index block
IndexAndFooterPastMagic(index_entries, index_off) ==
    INDEX_MAGIC \o LE(Len(index_entries), 4) \o PackIndexEntries(index_entries)
      \o FOOTER_MAGIC \o LE(index_off + 4, 8)

IndexAndFooter(index_entries, index_off) ==
    INDEX_MAGIC \o LE(Len(index_entries), 4) \o PackIndexEntries(index_entries)
      \o FOOTER_MAGIC \o LE(index_off, 8)

\* ----------------------------------------------------------------- reader
NoMeta == [name |-> <<>>, unit |-> <<>>, description |-> <<>>, source |-> <<>>]

\* _rstr at position pos: [ok, s, pos]
_rstr(f, pos) ==
    LET lb == ReadAt(f, pos, 2)
        ln == UnLE(lb)
    IN [ok |-> Len(lb) = 2, s |-> ReadAt(f, pos + 2, ln), pos |-> pos + 2 + ln]

RECURSIVE ReadMetas(_, _, _, _)
\* the for loop of _read_header: k records left, from position pos
ReadMetas(f, pos, k, signals) ==
    IF k = 0 THEN [ok |-> TRUE, signals |-> signals, pos |-> pos]
    ELSE LET sb == ReadAt(f, pos, 4)
             nm == _rstr(f, pos + 4)
             un == _rstr(f, nm.pos)
             ds == _rstr(f, un.pos)
             sr == _rstr(f, ds.pos)
             meta == [name |-> nm.s, unit |-> un.s,
                      description |-> ds.s, source |-> sr.s]
             sid == UnLE(sb)
         IN IF Len(sb) # 4 \/ ~nm.ok \/ ~un.ok \/ ~ds.ok \/ ~sr.ok
            THEN [ok |-> FALSE, signals |-> signals, pos |-> pos]
            ELSE ReadMetas(f, sr.pos, k - 1,
                           [s \in DOMAIN signals \cup {sid} |->
                              IF s = sid THEN meta ELSE signals[s]])

\* PltReader._read_header: ok is FALSE where it raises
_read_header(f) ==
    LET head == ReadAt(f, 0, HEADER_PREFIX_SIZE)
        metas == ReadMetas(f, HEADER_PREFIX_SIZE, UnLE(SubSeq(head, 15, 16)),
                           [s \in {} |-> NoMeta])
    IN IF Len(head) # HEADER_PREFIX_SIZE \/ SubSeq(head, 1, 4) # MAGIC
       THEN [ok |-> FALSE, version |-> 0, comp |-> COMP_ZLIB, created |-> 0,
             signals |-> [s \in {} |-> NoMeta], pos |-> 0]
       ELSE [ok |-> metas.ok, version |-> head[5], comp |-> head[6],
             created |-> UnLE(SubSeq(head, 7, 14)),
             signals |-> metas.signals, pos |-> metas.pos]

RECURSIVE ReadIndexEntries(_, _, _, _)
ReadIndexEntries(f, pos, k, acc) ==
    IF k = 0 THEN [ok |-> TRUE, index |-> acc]
    ELSE LET eb == ReadAt(f, pos, INDEX_ENTRY_SIZE)
         IN IF Len(eb) # INDEX_ENTRY_SIZE THEN [ok |-> FALSE, index |-> <<>>]
            ELSE ReadIndexEntries(f, pos + INDEX_ENTRY_SIZE, k - 1,
                     Append(acc, [sid |-> UnLE(SubSeq(eb, 1, 4)),
                                  off |-> UnLE(SubSeq(eb, 5, 12)),
                                  mn |-> UnLE(SubSeq(eb, 13, 20)),
                                  mx |-> UnLE(SubSeq(eb, 21, 28))]))

\* PltReader._read_footer_and_index: the index entries in file order
\* (self.index[sid] is the subsequence of the entries of sid)
_read_footer_and_index(f) ==
    LET foot == ReadAt(f, Len(f) - FOOTER_SIZE, FOOTER_SIZE)
        idx_off == UnLE(SubSeq(foot, 5, 12))
        nb == ReadAt(f, idx_off + 4, 4)
    IN IF Len(f) < FOOTER_SIZE \/ SubSeq(foot, 1, 4) # FOOTER_MAGIC
       THEN [ok |-> FALSE, index |-> <<>>]
       ELSE IF ReadAt(f, idx_off, 4) # INDEX_MAGIC \/ Len(nb) # 4
       THEN [ok |-> FALSE, index |-> <<>>]
       ELSE ReadIndexEntries(f, idx_off + 8, UnLE(nb), <<>>)

\* PltReader.__init__: header, then footer and index
PltReader(f) ==
    LET h == _read_header(f)
        x == _read_footer_and_index(f)
    IN [ok |-> h.ok /\ x.ok, version |-> h.version, comp |-> h.comp,
        created |-> h.created, signals |-> h.signals,
        index |-> IF h.ok THEN x.index ELSE <<>>]

RECURSIVE UnpackRecords(_, _, _)
\* for i in range(n): struct.unpack(RECORD_FMT, view[i*16:(i+1)*16]);
\* ok is FALSE where a slice is short and struct.unpack raises
UnpackRecords(raw, i, n) ==
    IF i = n THEN [ok |-> TRUE, recs |-> <<>>]
    ELSE LET rec == ReadAt(raw, i * RECORD_SIZE, RECORD_SIZE)
             rest == UnpackRecords(raw, i + 1, n)
         IN IF Len(rec) # RECORD_SIZE \/ ~rest.ok
            THEN [ok |-> FALSE, recs |-> <<>>]
            ELSE [ok |-> TRUE,
                  recs |-> <<<<UnLE(SubSeq(rec, 1, 8)), UnLE(SubSeq(rec, 9, 16))>>>>
                             \o rest.recs]

\* self.index[signal_id]
IndexOf(index, signal_id) == SelectSeq(index, LAMBDA e : e.sid = signal_id)

\* faulty variant of WrongChunkMagic: the magic of a chunk is not examined
ChunkMagicUnchecked(f, off) == FALSE

\* f.seek(off); f.read(4) != CHUNK_MAGIC
WrongChunkMagic(f, off) == ReadAt(f, off, 4) # CHUNK_MAGIC

\* one pass of the loop body of iter_chunks, for index entry e
IterChunkAt(f, c, e, signal_id) ==
    LET hb == ReadAt(f, e.off + 4, CHUNK_HDR_SIZE)
        h == UnpackChunkHdr(hb)
        raw == _decompress(ReadAt(f, e.off + 4 + CHUNK_HDR_SIZE, h.comp_len), c)
        recs == UnpackRecords(raw.data, 0, h.n)
    IN IF \/ WrongChunkMagic(f, e.off)
          \/ Len(hb) # CHUNK_HDR_SIZE
          \/ h.sid # signal_id
          \/ ~raw.ok
          \/ Len(raw.data) # h.raw_len
          \/ ~recs.ok
       THEN [ok |-> FALSE, recs |-> <<>>]
       ELSE [ok |-> TRUE, recs |-> recs.recs]

RECURSIVE IterChunksFrom(_, _, _, _, _)
IterChunksFrom(f, c, es, signal_id, acc) ==
    IF es = <<>> THEN [ok |-> TRUE, chunks |-> acc]
    ELSE LET r == IterChunkAt(f, c, Head(es), signal_id)
         IN IF ~r.ok THEN [ok |-> FALSE, chunks |-> acc]
            ELSE IterChunksFrom(f, c, Tail(es), signal_id, Append(acc, r.recs))

\* PltReader.iter_chunks consumed to its end: the chunks yielded, and
\* ok = FALSE when the generator raised after them
iter_chunks(f, rd, signal_id) ==
    IterChunksFrom(f, rd.comp, IndexOf(rd.index, signal_id), signal_id, <<>>)

\* faulty variant of SkipsChunk: a chunk ending exactly at t1 is pruned
SkipsChunkEndingAt(e, t1, t2) == e.mx <= t1 \/ e.mn > t2

\* the pruning test of iter_time_range on an index entry
SkipsChunk(e, t1, t2) == e.mx < t1 \/ e.mn > t2

\* the record filter of iter_time_range
InRange(r, t1, t2) == t1 <= r[1] /\ r[1] <= t2

\* one pass of the loop body of iter_time_range for an entry not skipped
RangeChunkAt(f, c, e, signal_id, t1, t2) ==
    LET hb == ReadAt(f, e.off + 4, CHUNK_HDR_SIZE)
        h == UnpackChunkHdr(hb)
        raw == _decompress(ReadAt(f, e.off + 4 + CHUNK_HDR_SIZE, h.comp_len), c)
        recs == UnpackRecords(raw.data, 0, h.n)
    IN IF \/ WrongChunkMagic(f, e.off)
          \/ Len(hb) # CHUNK_HDR_SIZE
          \/ h.sid # signal_id
          \/ ~raw.ok
          \/ ~recs.ok
       THEN [ok |-> FALSE, recs |-> <<>>]
       ELSE [ok |-> TRUE,
             recs |-> SelectSeq(recs.recs, LAMBDA r : InRange(r, t1, t2))]

\* faulty variant of YieldsChunk: the filtered chunk is yielded even if empty
YieldsEveryChunk(recs) == TRUE

\* whether iter_time_range yields the filtered chunk (if ts_list:)
YieldsChunk(recs) == recs # <<>>

RECURSIVE IterRangeFrom(_, _, _, _, _, _, _, _)
\* touched: the offsets the generator seeks to, in order
IterRangeFrom(f, c, es, signal_id, t1, t2, acc, touched) ==
    IF es = <<>> THEN [ok |-> TRUE, chunks |-> acc, touched |-> touched]
    ELSE IF SkipsChunk(Head(es), t1, t2)
    THEN IterRangeFrom(f, c, Tail(es), signal_id, t1, t2, acc, touched)
    ELSE LET r == RangeChunkAt(f, c, Head(es), signal_id, t1, t2)
             seen == Append(touched, Head(es).off)
         IN IF ~r.ok THEN [ok |-> FALSE, chunks |-> acc, touched |-> seen]
            ELSE IterRangeFrom(f, c, Tail(es), signal_id, t1, t2,
                               IF YieldsChunk(r.recs) THEN Append(acc, r.recs)
                               ELSE acc,
                               seen)

\* PltReader.iter_time_range consumed to its end
iter_time_range(f, rd, signal_id, t1, t2) ==
    IterRangeFrom(f, rd.comp, IndexOf(rd.index, signal_id), signal_id, t1, t2,
                  <<>>, <<>>)

RECURSIVE Flatten(_)
\* ts_all.extend(ts); val_all.extend(vs) over the chunks
Flatten(chunks) ==
    IF chunks = <<>> THEN <<>> ELSE Head(chunks) \o Flatten(Tail(chunks))

\* PltReader.read_signal_all: ok = FALSE when iter_chunks raised
read_signal_all(f, rd, signal_id) ==
    LET r == iter_chunks(f, rd, signal_id)
    IN [ok |-> r.ok, recs |-> IF r.ok THEN Flatten(r.chunks) ELSE <<>>]

\* ====================================================================
\* State
\* ====================================================================
VARIABLES
    comp,             \* self.comp
    created,          \* self.created
    signals_by_id,    \* self._signals_by_id: sid -> metadata
    signals_by_name,  \* self._signals_by_name: name -> sid
    next_sid,         \* self._next_sid
    buf,              \* self._buf_ts / self._buf_val zipped: sid -> records
    fs,               \* the file system: path -> [exists, data]
    tmp_open,         \* self._tmp_f is open
    chunks_written,   \* self._chunks_written
    lock,             \* self._tmp_lock: [holder, waiters], of flush jobs
    orphan,           \* a worker-thread write whose awaiting task was cancelled
    running,          \* self._running
    flush_task,       \* self._flush_task: "none", "sleep", "gather", "done"
    calls,            \* record_* calls suspended in a threshold flush
    stop_pc,          \* the position of stop_and_save
    entries,          \* tmp_idx_entries, the result of the temp scan
    build,            \* the locals of _build_final_from_tmp
    fails,            \* I/O failures injected so far
    tmp_removed,      \* whether os.remove(self.tmp_path) succeeded
    recorded,         \* history: sid -> the records appended, in call order
    nrec,             \* history: number of records appended
    clean_stop,       \* history: no record call was in progress at stop_and_save
    old_final,        \* history: the content of final_path at construction
    record_error,     \* the exception that the last record_* call raised
    found_tmp,        \* history: the file at tmp_path before construction
    flushers,         \* the _periodic_flush tasks created and not ended
    rd,               \* a PltReader opened on final_path
    q,                \* the last reader call and its result
    fpos,             \* the file position of self._f of the reader
    gen,              \* the generators of iter_chunks / iter_time_range not yet consumed
    readers,          \* ReaderManager.readers: the paths opened
    signal_map,       \* ReaderManager.signal_map: public name -> entry
    signal_map_invert, \* ReaderManager.signal_map_invert
    readers_signals,  \* ReaderManager.readers_signals: path -> public names
    returned,         \* history: <<path, public name, original>> per assignment
    read_result,      \* the last read_file call: its path and how it ended
    websocket         \* one websocket stream: the handler's locals and the messages sent

writer_vars == <<comp, created, signals_by_id, signals_by_name, next_sid, buf,
                 fs, tmp_open, chunks_written, lock, orphan, running,
                 flush_task, calls, stop_pc, entries, build, fails, tmp_removed,
                 recorded, nrec, clean_stop, old_final, record_error,
                 found_tmp, flushers>>
reader_vars == <<rd, q, fpos, gen>>
registry_vars == <<readers, signal_map, signal_map_invert, readers_signals,
                   returned, read_result>>
stream_vars == <<websocket>>
vars == <<writer_vars, reader_vars, registry_vars, stream_vars>>

\* ------------------------------------------------------------ input sets
Names == {<<97>>, <<98>>}               \* the signal names "a" and "b"
Units == {<<117>>}                      \* the unit "u"
Timestamps == 1 .. MaxTs
OldFile == <<79, 76, 68>>               \* a file already at final_path
Absent == [exists |-> FALSE, data |-> <<>>]
File(data) == [exists |-> TRUE, data |-> data]

\* self.tmp_path, self.final_path and final_tmp as keys of fs
tmp_path == "tmp"
final_path == "final"
\* faulty variant of final_tmp: the final file is assembled in place
InPlace == "final"
final_tmp == "part"

NoError == "none"
NoBuild == [pc |-> "none", attempt |-> 0, index_entries |-> <<>>]
NoReader == [open |-> FALSE, ok |-> FALSE, version |-> 0, comp |-> COMP_ZLIB,
             created |-> 0, signals |-> <<>>, index |-> <<>>]
NoQuery == [op |-> "none", sid |-> 0, t1 |-> 0, t2 |-> 0, ok |-> TRUE,
            chunks |-> <<>>, touched |-> <<>>, after_failure |-> FALSE]

\* ------------------------------------------------------------------ lock
\* asyncio.Lock.acquire by a flush job: taken at once when the lock is free
\* and nobody waits, else the job joins the queue of waiters
LockEnqueue(waiters, job) == Append(waiters, job)

Acquire(lk, job) ==
    IF lk.holder = <<>> /\ lk.waiters = <<>>
    THEN [lk EXCEPT !.holder = <<[job EXCEPT !.phase = "submitted"]>>]
    ELSE [lk EXCEPT !.waiters = LockEnqueue(lk.waiters, job)]

\* asyncio.Lock.release: the first waiter is woken and submits its write
Release(lk) ==
    IF lk.waiters = <<>> THEN [holder |-> <<>>, waiters |-> <<>>]
    ELSE [holder |-> <<[Head(lk.waiters) EXCEPT !.phase = "submitted"]>>,
          waiters |-> Tail(lk.waiters)]

\* the jobs of an owner that hold or wait for the lock
JobsOf(lk, owner) ==
    Len(SelectSeq(lk.holder \o lk.waiters, LAMBDA j : j.owner = owner))

\* ------------------------------------------------------------- flushing
\* self._buf_ts[sid].clear(); self._buf_val[sid].clear()
ClearBuf(b, sid) == [b EXCEPT ![sid] = <<>>]

\* _flush_signal up to its first suspension: the snapshot is moved out of
\* the buffer and _append_chunk_to_tmp reaches the lock
_flush_signal(owner, sid, st) ==
    IF st.buf[sid] = <<>> THEN st
    ELSE [buf |-> ClearBuf(st.buf, sid),
          lock |-> Acquire(st.lock, [owner |-> owner, sid |-> sid,
                                     recs |-> st.buf[sid], phase |-> "wait"])]

RECURSIVE FlushEach(_, _, _)
FlushEach(owner, sids, st) ==
    IF sids = <<>> THEN st
    ELSE FlushEach(owner, Tail(sids), _flush_signal(owner, Head(sids), st))

\* faulty variant of _flush_all: only the buffers that hold chunk_records
\* records are flushed
FlushFullBuffers(owner, st) ==
    FlushEach(owner,
              SortedKeys({sid \in DOMAIN st.buf : Len(st.buf[sid]) >= ChunkRecords}),
              st)

\* _flush_all: one _flush_signal task per non-empty buffer, in key order
\* (the keys of _buf_ts are inserted in ascending sid order)
_flush_all(owner, st) ==
    FlushEach(owner, SortedKeys({sid \in DOMAIN st.buf : st.buf[sid] # <<>>}), st)

\* ====================================================================
\* Writer: construction, registration, recording
\* ====================================================================
CreatedAt == 7        \* float(time.time()) at construction

compression == "zstd"       \* the default of the constructor

\* faulty variant of open_wb: the file is opened for appending
open_ab(file) == File(file.data)

\* open(self.tmp_path, "wb"): the file is created, or truncated if present
open_wb(file) == File(<<>>)

\* the state after AsyncPltWriter(final_path, compression=name) where
\* found is at tmp_path: the temp-chunks file is opened "wb", final_path
\* is absent or holds an older file
WriterInitWith(name, found) ==
    /\ comp = _pick_compression(name)
    /\ created = CreatedAt
    /\ signals_by_id = <<>>
    /\ signals_by_name = <<>>
    /\ next_sid = 1
    /\ buf = <<>>
    /\ old_final \in {Absent, File(OldFile)}
    /\ fs = [p \in {tmp_path, final_tmp, final_path} |->
               IF p = tmp_path THEN open_wb(found)
               ELSE IF p = final_path THEN old_final ELSE Absent]
    /\ found_tmp = found
    /\ flushers = 0
    /\ tmp_open = TRUE
    /\ chunks_written = 0
    /\ lock = [holder |-> <<>>, waiters |-> <<>>]
    /\ orphan = <<>>
    /\ running = FALSE
    /\ flush_task = "none"
    /\ calls = 0
    /\ stop_pc = "idle"
    /\ entries = <<>>
    /\ build = NoBuild
    /\ fails = 0
    /\ tmp_removed = FALSE
    /\ recorded = <<>>
    /\ nrec = 0
    /\ clean_stop = TRUE
    /\ record_error = NoError

\* the constructor with its default compression, no file at tmp_path
WriterInit == WriterInitWith(compression, Absent)

Put(f, k, v) == [x \in DOMAIN f \cup {k} |-> IF x = k THEN v ELSE f[x]]

\* the registries and buffers as one value
Reg == [by_id |-> signals_by_id, by_name |-> signals_by_name,
        next |-> next_sid, buf |-> buf, sid |-> 0]

\* faulty variant of NextSidAfter: the counter is not advanced
NextSidKept(sid) == sid

\* self._next_sid += 1
NextSidAfter(sid) == sid + 1

\* add_signal_meta: the registries after the call, and the sid it returns
add_signal_meta(name, unit, description, source, reg) ==
    IF name \in DOMAIN reg.by_name
    THEN [reg EXCEPT !.sid = reg.by_name[name]]
    ELSE [by_id |-> Put(reg.by_id, reg.next,
                        [name |-> name, unit |-> unit,
                         description |-> description, source |-> source]),
          by_name |-> Put(reg.by_name, name, reg.next),
          next |-> NextSidAfter(reg.next),
          buf |-> Put(reg.buf, reg.next, <<>>),
          sid |-> reg.next]

\* get_signal_id: an int is returned as it is, a name is registered
get_signal_id(is_int, id, name, reg) ==
    IF is_int THEN [reg EXCEPT !.sid = id]
    ELSE add_signal_meta(name, <<>>, <<>>, <<>>, reg)

SetReg(reg) ==
    /\ signals_by_id' = reg.by_id
    /\ signals_by_name' = reg.by_name
    /\ next_sid' = reg.next

\* the public call add_signal_meta(name, unit)
AddSignalMeta(name, unit) ==
    /\ stop_pc = "idle"
    /\ Cardinality({sid \in DOMAIN signals_by_id :
                       signals_by_id[sid].unit # <<>>}) < MaxExplicit
    /\ LET reg == add_signal_meta(name, unit, <<>>, <<>>, Reg)
       IN /\ SetReg(reg)
          /\ buf' = reg.buf
          /\ recorded' = IF reg.sid \in DOMAIN recorded THEN recorded
                         ELSE Put(recorded, reg.sid, <<>>)
    /\ UNCHANGED <<comp, created, fs, tmp_open, chunks_written, lock, orphan,
                   running, flush_task, calls, stop_pc, entries, build, fails,
                   tmp_removed, nrec, clean_stop, old_final>>
    /\ UNCHANGED <<record_error, found_tmp, flushers, reader_vars, registry_vars,
                   stream_vars>>

RECURSIVE Stamp(_, _)
\* zip(timestamps, values): the k-th record of the session carries value k
Stamp(tss, k) ==
    IF tss = <<>> THEN <<>> ELSE <<<<Head(tss), k + 1>>>> \o Stamp(Tail(tss), k + 1)

\* the threshold test of record_point and record_batch
ReachedThreshold(b, sid) == Len(b[sid]) >= ChunkRecords

\* record_point (one timestamp) and record_batch (a list of them) called by
\* one of the producer coroutines, up to the first suspension of the call;
\* self._buf_ts[sid] raises KeyError where sid is no key of the buffers
Record(is_int, id, name, tss) ==
    /\ stop_pc = "idle"
    /\ calls < NumProducers
    /\ nrec + Len(tss) <= MaxRecords
    /\ LET reg == get_signal_id(is_int, id, name, Reg)
           sid == reg.sid
       IN IF sid \notin DOMAIN reg.buf
          THEN /\ record_error' = "KeyError"
               /\ UNCHANGED <<signals_by_id, signals_by_name, next_sid, buf,
                              lock, calls, recorded, nrec>>
          ELSE LET recs == Stamp(tss, nrec)
                   b1 == [reg.buf EXCEPT ![sid] = @ \o recs]
                   st0 == [buf |-> b1, lock |-> lock]
                   st == IF ReachedThreshold(b1, sid)
                         THEN _flush_signal("producer", sid, st0)
                         ELSE st0
               IN /\ SetReg(reg)
                  /\ buf' = st.buf
                  /\ lock' = st.lock
                  /\ calls' = JobsOf(st.lock, "producer")
                  /\ recorded' = LET r0 == IF sid \in DOMAIN recorded THEN recorded
                                           ELSE Put(recorded, sid, <<>>)
                                 IN [r0 EXCEPT ![sid] = @ \o recs]
                  /\ nrec' = nrec + Len(tss)
                  /\ record_error' = NoError
    /\ UNCHANGED <<comp, created, fs, tmp_open, chunks_written, orphan, running,
                   flush_task, stop_pc, entries, build, fails, tmp_removed,
                   clean_stop, old_final, found_tmp, flushers>>
    /\ UNCHANGED <<reader_vars, registry_vars, stream_vars>>

record_point(is_int, id, name, t) == Record(is_int, id, name, <<t>>)

MaxBatch == ChunkRecords + 1
Batches == UNION {[1 .. n -> Timestamps] : n \in 0 .. MaxBatch}

record_batch(is_int, id, name, tss) == Record(is_int, id, name, tss)

\* ====================================================================
\* Writer: periodic flusher and worker-thread writes
\* ====================================================================
\* flusher tasks the bounded model lets exist at once
MaxFlushers == 2

\* faulty variant of AlreadyRunning: start() does not test self._running
NeverRunning(r) == FALSE

\* if self._running: return
AlreadyRunning(r) == r

\* start(): spawns the periodic flusher unless already running; on a
\* running writer it returns at once
start ==
    /\ stop_pc = "idle"
    /\ IF AlreadyRunning(running)
       THEN UNCHANGED <<running, flush_task, flushers>>
       ELSE /\ flushers < MaxFlushers
            /\ running' = TRUE
            /\ flush_task' = "sleep"
            /\ flushers' = flushers + 1
    /\ UNCHANGED <<comp, created, signals_by_id, signals_by_name, next_sid, buf,
                   fs, tmp_open, chunks_written, lock, orphan, calls, stop_pc,
                   entries, build, fails, tmp_removed, recorded, nrec,
                   clean_stop, old_final>>
    /\ UNCHANGED <<record_error, found_tmp, reader_vars, registry_vars, stream_vars>>

\* _periodic_flush: the sleep ends and _flush_all starts one flush per
\* non-empty buffer; the task then waits in gather for all of them
_periodic_flush ==
    /\ flush_task = "sleep"
    /\ running
    /\ LET st == _flush_all("flusher", [buf |-> buf, lock |-> lock])
       IN /\ buf' = st.buf
          /\ lock' = st.lock
          /\ flush_task' = IF JobsOf(st.lock, "flusher") > 0 THEN "gather"
                           ELSE "sleep"
    /\ UNCHANGED <<comp, created, signals_by_id, signals_by_name, next_sid, fs,
                   tmp_open, chunks_written, orphan, running, calls, stop_pc,
                   entries, build, fails, tmp_removed, recorded, nrec,
                   clean_stop, old_final>>
    /\ UNCHANGED <<record_error, found_tmp, flushers, reader_vars, registry_vars,
                   stream_vars>>

\* self._tmp_f.write(bytes) on the open temp file
TmpWrite(files, bytes) ==
    [files EXCEPT ![tmp_path] = File(files[tmp_path].data \o bytes)]

\* what the owner of a flush does when its _append_chunk_to_tmp ends
\* normally, given the lock afterwards: a record_* call returns, the
\* gather of _flush_all ends with its last flush
Resume(owner, lk) ==
    /\ calls' = JobsOf(lk, "producer")
    /\ UNCHANGED flushers
    /\ flush_task' = IF /\ owner = "flusher" /\ flush_task = "gather"
                        /\ JobsOf(lk, "flusher") = 0
                     THEN "sleep" ELSE flush_task
    /\ stop_pc' = IF /\ owner = "stop" /\ stop_pc = "draining"
                     /\ JobsOf(lk, "stop") = 0
                  THEN "close" ELSE stop_pc

\* what the owner does when the _write raises (ValueError: I/O operation on
\* closed file): a record_* call ends with the exception; gather passes the
\* first exception on, so _periodic_flush, which catches CancelledError
\* only, ends with it, and stop_and_save ends with it
Raised(owner, lk) ==
    /\ calls' = JobsOf(lk, "producer")
    /\ flush_task' = IF owner = "flusher" /\ flush_task = "gather"
                     THEN "done" ELSE flush_task
    /\ flushers' = IF owner = "flusher" /\ flush_task = "gather"
                   THEN flushers - 1 ELSE flushers
    /\ stop_pc' = IF owner = "stop" /\ stop_pc = "draining"
                  THEN "failed" ELSE stop_pc

\* the thread pool starts the submitted _write
WorkerStart ==
    /\ lock.holder # <<>>
    /\ lock.holder[1].phase = "submitted"
    /\ lock' = [lock EXCEPT !.holder = <<[@[1] EXCEPT !.phase = "running"]>>]
    /\ UNCHANGED <<comp, created, signals_by_id, signals_by_name, next_sid, buf,
                   fs, tmp_open, chunks_written, orphan, running, flush_task,
                   calls, stop_pc, entries, build, fails, tmp_removed, recorded,
                   nrec, clean_stop, old_final>>
    /\ UNCHANGED <<record_error, found_tmp, flushers, reader_vars, registry_vars,
                   stream_vars>>

\* _write: self._tmp_f.write(hdr.getvalue()); on a closed file it raises
\* and the flush ends with that exception
WorkerWriteHdr ==
    /\ lock.holder # <<>>
    /\ lock.holder[1].phase = "running"
    /\ LET job == lock.holder[1]
       IN IF tmp_open
          THEN /\ fs' = TmpWrite(fs, ChunkHdr(job.sid, job.recs, comp))
               /\ lock' = [lock EXCEPT
                             !.holder = <<[job EXCEPT !.phase = "hdr_written"]>>]
               /\ UNCHANGED <<calls, flush_task, stop_pc, flushers>>
          ELSE /\ lock' = Release(lock)
               /\ Raised(job.owner, Release(lock))
               /\ UNCHANGED fs
    /\ UNCHANGED <<comp, created, signals_by_id, signals_by_name, next_sid, buf,
                   tmp_open, chunks_written, orphan, running, entries, build,
                   fails, tmp_removed, recorded, nrec, clean_stop, old_final>>
    /\ UNCHANGED <<record_error, found_tmp, reader_vars, registry_vars, stream_vars>>

\* _write: self._tmp_f.write(comp); self._chunks_written += 1; the lock is
\* released when the awaiting flush resumes
WorkerWriteComp ==
    /\ lock.holder # <<>>
    /\ lock.holder[1].phase = "hdr_written"
    /\ LET job == lock.holder[1]
       IN /\ lock' = Release(lock)
          /\ IF tmp_open
             THEN /\ fs' = TmpWrite(fs, ChunkPayload(job.recs, comp))
                  /\ chunks_written' = chunks_written + 1
                  /\ Resume(job.owner, Release(lock))
             ELSE /\ Raised(job.owner, Release(lock))
                  /\ UNCHANGED <<fs, chunks_written>>
    /\ UNCHANGED <<comp, created, signals_by_id, signals_by_name, next_sid, buf,
                   tmp_open, orphan, running, entries, build, fails,
                   tmp_removed, recorded, nrec, clean_stop, old_final>>
    /\ UNCHANGED <<record_error, found_tmp, reader_vars, registry_vars, stream_vars>>

\* the detached write of a cancelled flush goes on in its thread
OrphanWriteHdr ==
    /\ orphan # <<>>
    /\ orphan[1].phase = "running"
    /\ IF tmp_open
       THEN /\ fs' = TmpWrite(fs, ChunkHdr(orphan[1].sid, orphan[1].recs, comp))
            /\ orphan' = <<[orphan[1] EXCEPT !.phase = "hdr_written"]>>
       ELSE /\ orphan' = <<>>
            /\ UNCHANGED fs
    /\ UNCHANGED <<comp, created, signals_by_id, signals_by_name, next_sid, buf,
                   tmp_open, chunks_written, lock, running, flush_task, calls,
                   stop_pc, entries, build, fails, tmp_removed, recorded, nrec,
                   clean_stop, old_final>>
    /\ UNCHANGED <<record_error, found_tmp, flushers, reader_vars, registry_vars,
                   stream_vars>>

OrphanWriteComp ==
    /\ orphan # <<>>
    /\ orphan[1].phase = "hdr_written"
    /\ orphan' = <<>>
    /\ IF tmp_open
       THEN /\ fs' = TmpWrite(fs, ChunkPayload(orphan[1].recs, comp))
            /\ chunks_written' = chunks_written + 1
       ELSE UNCHANGED <<fs, chunks_written>>
    /\ UNCHANGED <<comp, created, signals_by_id, signals_by_name, next_sid, buf,
                   tmp_open, lock, running, flush_task, calls, stop_pc, entries,
                   build, fails, tmp_removed, recorded, nrec, clean_stop,
                   old_final>>
    /\ UNCHANGED <<record_error, found_tmp, flushers, reader_vars, registry_vars,
                   stream_vars>>

\* ====================================================================
\* Writer: stop_and_save
\* ====================================================================
FlusherHolds(lk) == lk.holder # <<>> /\ lk.holder[1].owner = "flusher"

\* self._flush_task.cancel() reaching the flushes gathered by _flush_all:
\* a flush waiting for the lock leaves the queue, a flush awaiting its
\* worker-thread write leaves the "async with" and so releases the lock
CancelFlusher(lk) ==
    LET ws == SelectSeq(lk.waiters, LAMBDA j : j.owner # "flusher")
    IN IF FlusherHolds(lk) THEN Release([holder |-> lk.holder, waiters |-> ws])
       ELSE [lk EXCEPT !.waiters = ws]

\* the write of the cancelled holder: a submitted write that no thread has
\* started is cancelled with its future, a started one runs on detached
Detached(lk) ==
    IF FlusherHolds(lk) /\ lk.holder[1].phase # "submitted" THEN lk.holder
    ELSE <<>>

\* stop_and_save up to the gather of its final _flush_all: the flusher is
\* cancelled and has ended, then one flush per non-empty buffer is started.
\* (No record_* call starts once stop_and_save is under way, so nothing
\* the loop runs while the caller awaits the cancelled task changes what
\* the final _flush_all finds.)
stop_and_save ==
    /\ stop_pc = "idle"
    /\ running' = FALSE
    /\ clean_stop' = (calls = 0)
    /\ IF flush_task = "done"
       THEN \* "await self._flush_task" raises the exception the task ended with
            /\ stop_pc' = "failed"
            /\ UNCHANGED <<flush_task, orphan, buf, lock, flushers>>
       ELSE /\ flush_task' = "none"
            \* cancel() and the await end the task self._flush_task refers to
            /\ flushers' = IF flush_task # "none" THEN flushers - 1 ELSE flushers
            /\ orphan' = IF flush_task # "none" THEN Detached(lock) ELSE orphan
            /\ LET lk == IF flush_task # "none" THEN CancelFlusher(lock) ELSE lock
                   st == _flush_all("stop", [buf |-> buf, lock |-> lk])
               IN /\ buf' = st.buf
                  /\ lock' = st.lock
                  /\ stop_pc' = IF JobsOf(st.lock, "stop") > 0 THEN "draining"
                                ELSE "close"
    /\ UNCHANGED <<comp, created, signals_by_id, signals_by_name, next_sid,
                   fs, tmp_open, chunks_written, calls, entries, build, fails,
                   tmp_removed, recorded, nrec, old_final>>
    /\ UNCHANGED <<record_error, found_tmp, reader_vars, registry_vars, stream_vars>>

\* the final flushes are done: self._tmp_f.flush(), os.fsync, close();
\* then await asyncio.to_thread(self._scan_tmp_for_index_entries), whose
\* ValueError ends stop_and_save with that error.  (Nothing is written to
\* a closed file, so the scan reads what the close left.)
StopScan ==
    /\ stop_pc = "close"
    /\ tmp_open' = FALSE
    /\ LET r == _scan_tmp_for_index_entries(fs[tmp_path].data)
       IN IF fs[tmp_path].exists /\ r.ok
          THEN /\ entries' = r.entries
               /\ build' = [NoBuild EXCEPT !.pc = "open"]
               /\ stop_pc' = "build"
          ELSE /\ stop_pc' = "failed"
               /\ UNCHANGED <<entries, build>>
    /\ UNCHANGED <<comp, created, signals_by_id, signals_by_name, next_sid, buf,
                   fs, chunks_written, lock, orphan, running,
                   flush_task, calls, fails, tmp_removed, recorded, nrec,
                   clean_stop, old_final>>
    /\ UNCHANGED <<record_error, found_tmp, flushers, reader_vars, registry_vars,
                   stream_vars>>

\* ---------------------------------------------- _build_final_from_tmp
build_frame == <<comp, created, signals_by_id, signals_by_name, next_sid, buf,
                 tmp_open, chunks_written, lock, orphan, running, flush_task,
                 calls, entries, tmp_removed, recorded, nrec, clean_stop,
                 old_final>>

\* the bare "except:": sleep(1) and a fresh attempt on the same entries
Retry == [NoBuild EXCEPT !.pc = "open", !.attempt = build.attempt]

\* the except clause after the attempt numbered att has failed: the
\* recursive call of line 416 starts the next attempt, until the call
\* stack is exhausted; then RecursionError leaves every except clause and
\* stop_and_save ends with it
RetryOrRaise(att) ==
    IF att < MaxAttempt
    THEN /\ build' = [Retry EXCEPT !.attempt = att]
         /\ UNCHANGED stop_pc
    ELSE /\ build' = [build EXCEPT !.pc = "raised", !.attempt = att]
         /\ stop_pc' = "failed"

\* faulty variant of OpenPart: what an earlier attempt left in final_tmp
\* is kept and the new attempt writes after it
OpenPartAppend(file) == open_ab(file)

\* open(final_tmp, "wb") of an attempt: what an earlier attempt left is
\* truncated
OpenPart(file) == open_wb(file)

\* attempt += 1; open(final_tmp, "wb"); self._write_header_to_final(...)
BuildOpen ==
    /\ stop_pc = "build" /\ build.pc = "open"
    /\ fs' = [fs EXCEPT ![final_tmp] =
                File(OpenPart(fs[final_tmp]).data
                       \o _write_header_to_final(comp, created, signals_by_id))]
    /\ build' = [build EXCEPT !.pc = "copy", !.attempt = @ + 1]
    /\ UNCHANGED <<stop_pc, fails>>
    /\ UNCHANGED build_frame
    /\ UNCHANGED <<record_error, found_tmp, flushers, reader_vars, registry_vars,
                   stream_vars>>

\* faulty variant of ShortRead: the copy does not compare the lengths
ShortReadIgnored(chunk, total_size) == FALSE
\* if len(chunk) != total_size: raise ValueError("Temp changed during copy")
ShortRead(chunk, total_size) == Len(chunk) # total_size

\* faulty variant of tell: the offset does not count the header prefix
TellPastPrefix(out) == Len(out) - HEADER_PREFIX_SIZE

\* off = out_f.tell(): the number of bytes written to final_tmp so far
tell(out) == Len(out)

RECURSIVE CopyChunks(_, _, _, _, _)
\* the copy loop "for (sid, total_size, mn, mx) in entries":
\* off = out_f.tell(); chunk = src.read(total_size); out_f.write(chunk);
\* index_entries.append((sid, off, mn, mx)); ok is FALSE where a read is
\* short and ValueError("Temp changed during copy") is raised
CopyChunks(src, ents, srcpos, out, index_entries) ==
    IF ents = <<>>
    THEN [ok |-> TRUE, out |-> out, index_entries |-> index_entries]
    ELSE LET e == Head(ents)
             chunk == ReadAt(src, srcpos, e.total_size)
         IN IF ShortRead(chunk, e.total_size)
            THEN [ok |-> FALSE, out |-> out, index_entries |-> index_entries]
            ELSE CopyChunks(src, Tail(ents), srcpos + e.total_size,
                            out \o chunk,
                            Append(index_entries,
                                   [sid |-> e.sid, off |-> tell(out),
                                    mn |-> e.mn, mx |-> e.mx]))

\* the copy loop, then index_off = out_f.tell(), the index block and the
\* footer, flush and fsync; an exception of the copy is caught and retried
BuildCopy ==
    /\ stop_pc = "build" /\ build.pc = "copy"
    /\ LET r == CopyChunks(fs[tmp_path].data, entries, 0,
                           fs[final_tmp].data, <<>>)
       IN IF fs[tmp_path].exists /\ r.ok
          THEN /\ fs' = [fs EXCEPT ![final_tmp] =
                           File(r.out \o IndexAndFooter(r.index_entries,
                                                        Len(r.out)))]
               /\ build' = [build EXCEPT !.pc = "replace",
                                         !.index_entries = r.index_entries]
               /\ UNCHANGED stop_pc
          ELSE /\ fs' = [fs EXCEPT ![final_tmp] = File(r.out)]
               /\ RetryOrRaise(build.attempt)
    /\ UNCHANGED fails
    /\ UNCHANGED build_frame
    /\ UNCHANGED <<record_error, found_tmp, flushers, reader_vars, registry_vars,
                   stream_vars>>

\* os.replace(final_tmp, self.final_path)
BuildReplace ==
    /\ stop_pc = "build" /\ build.pc = "replace"
    /\ fs' = [p \in DOMAIN fs |->
                IF p = final_path THEN fs[final_tmp]
                ELSE IF p = final_tmp THEN Absent ELSE fs[p]]
    /\ build' = [build EXCEPT !.pc = "done"]
    /\ stop_pc' = "cleanup"
    /\ UNCHANGED fails
    /\ UNCHANGED build_frame
    /\ UNCHANGED <<record_error, found_tmp, flushers, reader_vars, registry_vars,
                   stream_vars>>

\* an I/O error at the current step of the attempt (open, write, replace):
\* caught by the bare "except:", which retries; at pc = "open" it is the
\* open of this attempt that fails, after "attempt += 1"
BuildFail ==
    /\ stop_pc = "build"
    /\ build.pc \in {"open", "copy", "replace"}
    /\ fails < MaxFail
    /\ fails' = fails + 1
    /\ RetryOrRaise(IF build.pc = "open" THEN build.attempt + 1 ELSE build.attempt)
    /\ UNCHANGED fs
    /\ UNCHANGED build_frame
    /\ UNCHANGED <<record_error, found_tmp, flushers, reader_vars, registry_vars,
                   stream_vars>>

\* os.remove(self.tmp_path) in try / except Exception: pass
StopCleanup ==
    /\ stop_pc = "cleanup"
    /\ \E removed \in BOOLEAN :
         /\ tmp_removed' = removed
         /\ fs' = IF removed THEN [fs EXCEPT ![tmp_path] = Absent] ELSE fs
    /\ stop_pc' = "done"
    /\ UNCHANGED <<comp, created, signals_by_id, signals_by_name, next_sid, buf,
                   tmp_open, chunks_written, lock, orphan, running, flush_task,
                   calls, entries, build, fails, recorded, nrec, clean_stop,
                   old_final>>
    /\ UNCHANGED <<record_error, found_tmp, flushers, reader_vars, registry_vars,
                   stream_vars>>

\* ====================================================================
\* Reader of the sealed file
\* ====================================================================
QuerySids == 1 .. Cardinality(Names) + 1
QueryTimes == 0 .. MaxTs + 2

\* ------------------------------------------------ shared file position
\* generators that the bounded model lets be suspended at once
NumGens == 2

\* f.read(n) at position p moves the position by the bytes read; a
\* position beyond the end of the file stays
Advance(f, p, n) ==
    IF p + n <= Len(f) THEN p + n ELSE IF p > Len(f) THEN p ELSE Len(f)

\* faulty variant of seek: the reads go on from the position the handle has
SeekSkipped(pos, off) == pos

\* f.seek(off, os.SEEK_SET): the position of the shared handle afterwards
seek(pos, off) == off

\* the position after one pass of the loop body that started at position
\* at: after the read that made it raise, or after the payload
PosAfterChunk(f, at, signal_id) ==
    LET p1 == Advance(f, at, 4)
        hb == ReadAt(f, p1, CHUNK_HDR_SIZE)
        p2 == Advance(f, p1, CHUNK_HDR_SIZE)
        h == UnpackChunkHdr(hb)
    IN IF WrongChunkMagic(f, at) THEN p1
       ELSE IF Len(hb) # CHUNK_HDR_SIZE \/ h.sid # signal_id THEN p2
       ELSE Advance(f, p2, h.comp_len)

\* next() on an iter_chunks generator with es left to visit, the handle
\* at pos: it runs to its next yield, its end or its exception
IterStep(f, c, es, signal_id, pos) ==
    IF es = <<>>
    THEN [pc |-> "ended", es |-> <<>>, pos |-> pos, yields |-> FALSE, chunk |-> <<>>]
    ELSE LET at == seek(pos, Head(es).off)
             r == IterChunkAt(f, c, [Head(es) EXCEPT !.off = at], signal_id)
             p == PosAfterChunk(f, at, signal_id)
         IN IF ~r.ok
            THEN [pc |-> "raised", es |-> <<>>, pos |-> p, yields |-> FALSE,
                  chunk |-> <<>>]
            ELSE [pc |-> "suspended", es |-> Tail(es), pos |-> p, yields |-> TRUE,
                  chunk |-> r.recs]

RECURSIVE RangeStep(_, _, _, _, _, _, _)
\* next() on an iter_time_range generator: pruned entries and chunks whose
\* filtered list is empty are passed without a yield
RangeStep(f, c, es, signal_id, t1, t2, pos) ==
    IF es = <<>>
    THEN [pc |-> "ended", es |-> <<>>, pos |-> pos, yields |-> FALSE, chunk |-> <<>>]
    ELSE IF SkipsChunk(Head(es), t1, t2)
    THEN RangeStep(f, c, Tail(es), signal_id, t1, t2, pos)
    ELSE LET at == seek(pos, Head(es).off)
             r == RangeChunkAt(f, c, [Head(es) EXCEPT !.off = at], signal_id, t1, t2)
             p == PosAfterChunk(f, at, signal_id)
         IN IF ~r.ok
            THEN [pc |-> "raised", es |-> <<>>, pos |-> p, yields |-> FALSE,
                  chunk |-> <<>>]
            ELSE IF YieldsChunk(r.recs)
            THEN [pc |-> "suspended", es |-> Tail(es), pos |-> p, yields |-> TRUE,
                  chunk |-> r.recs]
            ELSE RangeStep(f, c, Tail(es), signal_id, t1, t2, p)

\* next() on generator g
GenStep(f, c, g, pos) ==
    IF g.kind = "iter_chunks" THEN IterStep(f, c, g.es, g.sid, pos)
    ELSE RangeStep(f, c, g.es, g.sid, g.t1, g.t2, pos)

RECURSIVE PosAfterAll(_, _, _, _)
\* the position of the handle once generator g has been consumed to its
\* end or its exception
PosAfterAll(f, c, g, pos) ==
    LET st == GenStep(f, c, g, pos)
    IN IF st.pc = "suspended" THEN PosAfterAll(f, c, [g EXCEPT !.es = st.es], st.pos)
       ELSE st.pos

NoGen == [kind |-> "none", sid |-> 0, t1 |-> 0, t2 |-> 0, es |-> <<>>,
          out |-> <<>>, pc |-> "none"]

\* the generator object that rd.iter_chunks(sid) or
\* rd.iter_time_range(sid, t1, t2) returns; no line of its body has run
NewGen(kind, r, sid, t1, t2) ==
    [kind |-> kind, sid |-> sid, t1 |-> t1, t2 |-> t2,
     es |-> IndexOf(r.index, sid), out |-> <<>>, pc |-> "suspended"]

\* the position __init__ leaves: after the last index entry read
PosAfterInit(f, r) ==
    IF r.ok
    THEN UnLE(ReadAt(f, Len(f) - FOOTER_SIZE + 4, 8)) + 8
           + INDEX_ENTRY_SIZE * Len(r.index)
    ELSE 0

\* PltReader(final_path) once stop_and_save has returned
ReaderOpen ==
    /\ stop_pc = "done"
    /\ ~rd.open
    /\ fs[final_path].exists
    /\ LET r == PltReader(fs[final_path].data)
       IN rd' = [open |-> TRUE, ok |-> r.ok, version |-> r.version,
                 comp |-> r.comp, created |-> r.created, signals |-> r.signals,
                 index |-> r.index]
          /\ fpos' = PosAfterInit(fs[final_path].data, r)
    /\ UNCHANGED <<writer_vars, q, gen, registry_vars, stream_vars>>

\* faulty variant of AfterCall: a call that raised leaves the reader
\* without its index
IndexLostOnFailure(r, ok) == IF ok THEN r ELSE [r EXCEPT !.index = <<>>]
\* the reader object after a call: iter_chunks, iter_time_range and
\* read_signal_all assign no field of self, whether they raise or not
AfterCall(r, ok) == r

\* rd.read_signal_all(sid)
ReaderReadAll(sid) ==
    /\ rd.open /\ rd.ok
    /\ q.op = "none"
    /\ LET r == read_signal_all(fs[final_path].data, rd, sid)
       IN /\ q' = [op |-> "read_signal_all", sid |-> sid, t1 |-> 0, t2 |-> 0,
                   ok |-> r.ok, chunks |-> <<r.recs>>, touched |-> <<>>,
                   after_failure |-> q.after_failure]
          /\ rd' = AfterCall(rd, r.ok)
    /\ fpos' = PosAfterAll(fs[final_path].data, rd.comp,
                           NewGen("iter_chunks", rd, sid, 0, 0), fpos)
    /\ UNCHANGED <<writer_vars, gen, registry_vars, stream_vars>>

\* list(rd.iter_chunks(sid)): the chunks yielded before the end or the
\* exception
ReaderIterChunks(sid) ==
    /\ rd.open /\ rd.ok
    /\ q.op = "none"
    /\ LET r == iter_chunks(fs[final_path].data, rd, sid)
       IN /\ q' = [op |-> "iter_chunks", sid |-> sid, t1 |-> 0, t2 |-> 0,
                   ok |-> r.ok, chunks |-> r.chunks, touched |-> <<>>,
                   after_failure |-> q.after_failure]
          /\ rd' = AfterCall(rd, r.ok)
    /\ fpos' = PosAfterAll(fs[final_path].data, rd.comp,
                           NewGen("iter_chunks", rd, sid, 0, 0), fpos)
    /\ UNCHANGED <<writer_vars, gen, registry_vars, stream_vars>>

\* list(rd.iter_time_range(sid, t1, t2))
ReaderIterTimeRange(sid, t1, t2) ==
    /\ rd.open /\ rd.ok
    /\ q.op = "none"
    /\ LET r == iter_time_range(fs[final_path].data, rd, sid, t1, t2)
       IN /\ q' = [op |-> "iter_time_range", sid |-> sid, t1 |-> t1, t2 |-> t2,
                   ok |-> r.ok, chunks |-> r.chunks, touched |-> r.touched,
                   after_failure |-> q.after_failure]
          /\ rd' = AfterCall(rd, r.ok)
    /\ fpos' = PosAfterAll(fs[final_path].data, rd.comp,
                           NewGen("iter_time_range", rd, sid, t1, t2), fpos)
    /\ UNCHANGED <<writer_vars, gen, registry_vars, stream_vars>>

\* the call has returned or raised and the caller goes on to its next call
\* on the same reader
ReaderCallEnds ==
    /\ q.op # "none"
    /\ q' = [NoQuery EXCEPT !.after_failure = q.after_failure \/ ~q.ok]
    /\ UNCHANGED <<writer_vars, rd, fpos, gen, registry_vars, stream_vars>>

\* ====================================================================
\* ReaderManager (src/core/reader.py)
\* ====================================================================
AVAILABLE_FORMATS == {"pltx", "csv", "xlsx", "xls", "h5", "parquet"}

\* a path as the list path.split("."); the files on disk and the
\* signal_names of their headers
Paths == {<<"f1", "csv">>, <<"f2", "CSV">>, <<"f3", "parquet">>, <<"notes", "txt">>}
SignalNamesOf(path) ==
    IF path = <<"f1", "csv">> THEN <<"Temp">>
    ELSE IF path = <<"f2", "CSV">> THEN <<"Temp", "Hum">>
    ELSE IF path = <<"f3", "parquet">> THEN <<"Hum", "Temp">>
    ELSE <<>>

\* str.lower on the extensions used
Lower(s) == IF s = "CSV" THEN "csv" ELSE s

\* path.lower().split(".")[-1]
Extension(path) == Lower(path[Len(path)])

\* origin_keys.count(signal) on list(self.signal_map.keys())
KeyCount(keys, signal) == Cardinality({k \in keys : k = signal})

\* ReaderManager.get_signal_name
get_signal_name(smap, signal) ==
    IF signal \in DOMAIN smap
    THEN signal \o "[" \o ToString(KeyCount(DOMAIN smap, signal) + 1) \o "]"
    ELSE signal

\* number of registry entries whose original name is signal
OrigCount(smap, signal) == Cardinality({k \in DOMAIN smap : smap[k].orig = signal})

RECURSIVE Assign(_, _, _)
\* the for loop of read_file over the remaining signal_names
Assign(path, names, st) ==
    IF names = <<>> THEN st
    ELSE LET signal == Head(names)
             _signal == get_signal_name(st.signal_map, signal)
         IN Assign(path, Tail(names),
                   [signal_map |-> Put(st.signal_map, _signal,
                                       [orig |-> signal, reader |-> path,
                                        path |-> path]),
                    signal_map_invert |-> Put(st.signal_map_invert, signal, _signal),
                    assigned_list |-> Append(st.assigned_list, _signal),
                    returned |-> Append(st.returned,
                                        [path |-> path, public |-> _signal,
                                         orig |-> signal,
                                         present |-> signal \in DOMAIN st.signal_map,
                                         norig |-> OrigCount(st.signal_map, signal)])])

\* the part of a path after its last dot lies in the file name: it holds no
\* path separator
InFileName(s) == s \notin {"d/readme"}

\* os.path.splitext(path.lower())[-1][1:]: what follows the last dot of the
\* file name, and "" where the file name has no dot or only leading dots
SplitExt(path) ==
    IF \/ Len(path) = 1
       \/ ~InFileName(path[Len(path)])
       \/ \A i \in 1 .. Len(path) - 1 : path[i] = ""
    THEN ""
    ELSE Lower(path[Len(path)])

\* Reader.get_engine: extension_map.get(ext, 'unknown')
get_engine(path) ==
    LET ext == SplitExt(path)
    IN IF ext \in {"pltx", "csv", "parquet"} THEN ext
       ELSE IF ext \in {"xlsx", "xls"} THEN "excel"
       ELSE IF ext = "h5" THEN "hdf5"
       ELSE "unknown"

NoRead == [path |-> <<>>, result |-> "none"]

\* ReaderManager.read_file(path); an unsupported extension returns None and
\* changes nothing; Reader(path) raises ValueError for an unknown engine,
\* before self.readers[path] is assigned
read_file(path) ==
    /\ Len(returned) < MaxAssigned
    /\ IF Extension(path) \notin AVAILABLE_FORMATS
       THEN /\ read_result' = [path |-> path, result |-> "None"]
            /\ UNCHANGED <<readers, signal_map, signal_map_invert,
                           readers_signals, returned>>
       ELSE IF path \notin readers /\ get_engine(path) = "unknown"
       THEN /\ read_result' = [path |-> path, result |-> "ValueError"]
            /\ UNCHANGED <<readers, signal_map, signal_map_invert,
                           readers_signals, returned>>
       ELSE LET st == Assign(path, SignalNamesOf(path),
                             [signal_map |-> signal_map,
                              signal_map_invert |-> signal_map_invert,
                              assigned_list |-> <<>>, returned |-> returned])
            IN /\ readers' = readers \cup {path}
               /\ signal_map' = st.signal_map
               /\ signal_map_invert' = st.signal_map_invert
               /\ readers_signals' = Put(readers_signals, path, st.assigned_list)
               /\ returned' = st.returned
               /\ read_result' = [path |-> path, result |-> "assigned_list"]
    /\ UNCHANGED <<writer_vars, reader_vars, stream_vars>>

RegistryInit ==
    /\ readers = {}
    /\ signal_map = <<>>
    /\ signal_map_invert = <<>>
    /\ readers_signals = <<>>
    /\ returned = <<>>
    /\ read_result = NoRead

ReaderInit ==
    /\ rd = NoReader /\ q = NoQuery
    /\ fpos = 0
    /\ gen = [i \in 1 .. NumGens |-> NoGen]

\* ====================================================================
\* The websocket stream (src/routes.py websocket_endpoint, the same code
\* as SimpleReaderAgent.stream in src/src/core/agent.py)
\* ====================================================================
MaxStreamChunks == 2   \* chunks reader.iter_chunks yields for one signal

None == 0              \* JSON null in "timestamp" and "value"

\* the names a client asks for: registered ones and one that never is
StreamNames == {"Temp", "Temp[2]", "Hum", "Nope"}

RECURSIVE FileChunks(_, _)
\* the chunks (ts_chunk, val_chunk) zipped, for chunk lengths lens: the
\* k-th row of the file carries timestamp k and value k + 10
FileChunks(lens, k) ==
    IF lens = <<>> THEN <<>>
    ELSE <<[i \in 1 .. Head(lens) |-> <<k + i, k + i + 10>>]>>
         \o FileChunks(Tail(lens), k + Head(lens))

\* what reader.iter_chunks(orig_signal_name) does when it is advanced: it
\* yields the chunks in file order and then ends, or raises after them
Iterations ==
    {[chunks |-> FileChunks(lens, 0), fails |-> f] :
       lens \in UNION {[1 .. n -> 0 .. ChunkRecords] : n \in 0 .. MaxStreamChunks},
       f \in BOOLEAN}

NoIteration == [chunks |-> <<>>, fails |-> FALSE]

\* the messages of websocket.send_json
DataMessage(rec, seq) ==
    [error |-> FALSE, timestamp |-> rec[1], value |-> rec[2], seq |-> seq,
     end_flag |-> FALSE]
Terminator(seq) ==
    [error |-> FALSE, timestamp |-> None, value |-> None, seq |-> seq,
     end_flag |-> TRUE]
ErrorMessage ==
    [error |-> TRUE, timestamp |-> None, value |-> None, seq |-> None,
     end_flag |-> FALSE]

\* faulty variant of SeqAfter: the counter is not advanced
SeqKept(seq) == seq
\* seq += 1
SeqAfter(seq) == seq + 1

\* faulty variant of AfterExcept: the handler falls through to the
\* terminator after reporting the error
ExceptThenTerminator == "terminate"
\* where the handler goes from the except clause: to finally
AfterExcept == "finally"

NoStream == [pc |-> "idle", signal_name |-> "", registered |-> FALSE,
             path |-> <<>>, orig |-> "", src |-> NoIteration, rest |-> <<>>,
             cur |-> <<>>, seq |-> 0, sent |-> <<>>, closed |-> FALSE]

RECURSIVE NextAwait(_)
\* the handler runs to its next await: the send of the next row of the
\* current chunk, else of the next chunk the generator yields; the sleep
\* before the terminator when the generator ends; the except clause when
\* the generator raises
NextAwait(st) ==
    IF st.cur # <<>> THEN [st EXCEPT !.pc = "send"]
    ELSE IF st.rest # <<>>
         THEN NextAwait([st EXCEPT !.cur = Head(st.rest), !.rest = Tail(st.rest)])
    ELSE IF st.src.fails THEN [st EXCEPT !.pc = "except"]
    ELSE [st EXCEPT !.pc = "sleep"]

\* websocket_endpoint up to its first await after accept(): the registry
\* lookup, the header test, seq = 0 and the start of the iteration
websocket_endpoint(signal_name, it) ==
    /\ websocket.pc \in {"idle", "closed"}
    /\ IF signal_name \notin DOMAIN signal_map
       THEN /\ it = NoIteration
            /\ websocket' = [NoStream EXCEPT !.pc = "except", !.signal_name = signal_name]
       ELSE LET entry == signal_map[signal_name]
                st == [NoStream EXCEPT !.signal_name = signal_name,
                                       !.registered = TRUE,
                                       !.path = entry.path, !.orig = entry.orig,
                                       !.src = it, !.rest = it.chunks]
            IN websocket' = IF \A i \in DOMAIN SignalNamesOf(entry.path) :
                          SignalNamesOf(entry.path)[i] # entry.orig
                     THEN [st EXCEPT !.pc = "except"]
                     ELSE NextAwait(st)
    /\ UNCHANGED <<writer_vars, reader_vars, registry_vars>>

\* await websocket.send_json(response); seq += 1, and on to the next await
StreamSend ==
    /\ websocket.pc = "send"
    /\ websocket' = NextAwait([websocket EXCEPT
                 !.sent = Append(@, DataMessage(Head(websocket.cur), websocket.seq)),
                 !.seq = SeqAfter(@),
                 !.cur = Tail(@)])
    /\ UNCHANGED <<writer_vars, reader_vars, registry_vars>>

\* await asyncio.sleep(0.01667)
StreamSleep ==
    /\ websocket.pc = "sleep"
    /\ websocket' = [websocket EXCEPT !.pc = "terminate"]
    /\ UNCHANGED <<writer_vars, reader_vars, registry_vars>>

\* await websocket.send_json({... "seq": seq, "end_flag": True})
StreamTerminate ==
    /\ websocket.pc = "terminate"
    /\ websocket' = [websocket EXCEPT !.sent = Append(@, Terminator(websocket.seq)), !.pc = "finally"]
    /\ UNCHANGED <<writer_vars, reader_vars, registry_vars>>

\* except Exception as e: await websocket.send_json({"error": str(e)})
StreamExcept ==
    /\ websocket.pc = "except"
    /\ websocket' = [websocket EXCEPT !.sent = Append(@, ErrorMessage), !.pc = AfterExcept]
    /\ UNCHANGED <<writer_vars, reader_vars, registry_vars>>

\* finally: await websocket.close()
StreamClose ==
    /\ websocket.pc = "finally"
    /\ websocket' = [websocket EXCEPT !.closed = TRUE, !.pc = "closed"]
    /\ UNCHANGED <<writer_vars, reader_vars, registry_vars>>

StreamInit == websocket = NoStream

\* ====================================================================
\* Specifications
\* ====================================================================
Init == WriterInit /\ ReaderInit /\ RegistryInit /\ StreamInit

Next ==
    \/ \E name \in Names, unit \in Units : AddSignalMeta(name, unit)
    \/ \E name \in Names, t \in Timestamps : record_point(FALSE, 0, name, t)
    \/ \E name \in Names, tss \in Batches : record_batch(FALSE, 0, name, tss)
    \/ \E id \in DOMAIN signals_by_id, tss \in Batches :
         record_batch(TRUE, id, <<>>, tss)
    \/ start
    \/ _periodic_flush
    \/ WorkerStart
    \/ WorkerWriteHdr
    \/ WorkerWriteComp
    \/ OrphanWriteHdr
    \/ OrphanWriteComp
    \/ stop_and_save
    \/ StopScan
    \/ BuildOpen
    \/ BuildCopy
    \/ BuildReplace
    \/ BuildFail
    \/ StopCleanup

\* the writer session: registration, recording, flushing, stop_and_save
Spec == Init /\ [][Next]_vars

\* registration and recording by name, with the writes of the flushes
RegisterNext ==
    \/ \E name \in Names, unit \in Units : AddSignalMeta(name, unit)
    \/ \E name \in Names, t \in Timestamps : record_point(FALSE, 0, name, t)
    \/ \E name \in Names, tss \in Batches : record_batch(FALSE, 0, name, tss)
    \/ WorkerStart
    \/ WorkerWriteHdr
    \/ WorkerWriteComp

\* the producers before start() and stop_and_save, naming signals by name
SpecRegister == Init /\ [][RegisterNext]_vars

\* the integers a producer passes as signal_name_or_id
RecordSids == 1 .. Cardinality(Names) + 1

\* the same, with signals also named by integer, registered or not
RecordNext ==
    \/ RegisterNext
    \/ \E id \in RecordSids, t \in Timestamps : record_point(TRUE, id, <<>>, t)
    \/ \E id \in RecordSids, tss \in Batches : record_batch(TRUE, id, <<>>, tss)

SpecRecord == Init /\ [][RecordNext]_vars

\* the writer between start() and stop_and_save: producers record by name
\* (the timestamps play no part in flushing, so all records carry one),
\* the periodic flusher ticks, the worker threads write
RunningNext ==
    \/ \E name \in Names : record_point(FALSE, 0, name, MaxTs)
    \/ start
    \/ _periodic_flush
    \/ WorkerStart
    \/ WorkerWriteHdr
    \/ WorkerWriteComp

\* the steps that need no call of the application: the event loop ends
\* the asyncio.sleep of the flusher, the thread pool runs a submitted _write
FlushStep == _periodic_flush \/ WorkerStart \/ WorkerWriteHdr \/ WorkerWriteComp

\* the event loop and the thread pool do not stop while one of these steps
\* is possible; nothing obliges a producer to record or the application to
\* call start()
\* (the file at final_path plays no part before stop_and_save)
RunningInit == Init /\ old_final = Absent

SpecRunning == RunningInit /\ [][RunningNext]_vars /\ WF_vars(FlushStep)

\* a chunk frame that an earlier session, ended by a crash, left at
\* tmp_path: one record of sid 1 whose value no record of this session has
StaleRecords == <<<<MaxTs, 0>>>>
StaleChunk ==
    ChunkHdr(1, StaleRecords, COMP_ZLIB) \o ChunkPayload(StaleRecords, COMP_ZLIB)
FoundTmp == {Absent, File(StaleChunk)}

\* construction with any compression name, on a directory with or without
\* a temp-chunks file of an earlier session
SessionInit ==
    /\ \E name \in CompressionNames, found \in FoundTmp : WriterInitWith(name, found)
    /\ ReaderInit /\ RegistryInit /\ StreamInit

\* a session without the periodic flusher, from construction to the end
\* of stop_and_save
SessionNext ==
    \/ \E name \in Names, unit \in Units : AddSignalMeta(name, unit)
    \/ \E name \in Names, t \in Timestamps : record_point(FALSE, 0, name, t)
    \/ WorkerStart
    \/ WorkerWriteHdr
    \/ WorkerWriteComp
    \/ stop_and_save
    \/ StopScan
    \/ BuildOpen
    \/ BuildCopy
    \/ BuildReplace
    \/ BuildFail
    \/ StopCleanup

SpecSession == SessionInit /\ [][SessionNext]_vars

\* ====================================================================
\* Sealed files for the reader: what a whole writer session leaves
\* ====================================================================
\* a session as the list of its flushes: record_batch(name, tss) followed
\* by the flush of that buffer
SealedTimestamps == 1 .. MaxTs + 1
SealedBatches == UNION {[1 .. n -> SealedTimestamps] : n \in 1 .. ChunkRecords}
Sessions ==
    UNION {[1 .. n -> [name : Names, tss : SealedBatches]] : n \in 0 .. MaxSealedChunks}

NoSession == [reg |-> [by_id |-> <<>>, by_name |-> <<>>, next |-> 1,
                       buf |-> <<>>, sid |-> 0],
              tmp |-> <<>>, recorded |-> <<>>, n |-> 0]

RECURSIVE Replay(_, _, _)
\* the registries, the temp-chunks file and the records after the flushes
Replay(sess, c, st) ==
    IF sess = <<>> THEN st
    ELSE LET reg == get_signal_id(FALSE, 0, Head(sess).name, st.reg)
             recs == Stamp(Head(sess).tss, st.n)
             r0 == IF reg.sid \in DOMAIN st.recorded THEN st.recorded
                   ELSE Put(st.recorded, reg.sid, <<>>)
         IN Replay(Tail(sess), c,
                   [reg |-> reg,
                    tmp |-> st.tmp \o ChunkHdr(reg.sid, recs, c)
                                   \o ChunkPayload(recs, c),
                    recorded |-> [r0 EXCEPT ![reg.sid] = @ \o recs],
                    n |-> st.n + Len(recs)])

\* _build_final_from_tmp without a failure: the bytes renamed to final_path
Sealed(c, cr, by_id, tmp) ==
    LET r == _scan_tmp_for_index_entries(tmp)
        cp == CopyChunks(tmp, r.entries, 0, _write_header_to_final(c, cr, by_id),
                         <<>>)
    IN cp.out \o IndexAndFooter(cp.index_entries, Len(cp.out))

\* the state after construction, the session and a stop_and_save that
\* returned normally
SealedInit ==
    \E c \in {_pick_compression(n) : n \in CompressionNames}, sess \in Sessions :
      LET st == Replay(sess, c, NoSession)
          r == _scan_tmp_for_index_entries(st.tmp)
          sealed == Sealed(c, CreatedAt, st.reg.by_id, st.tmp)
      IN /\ comp = c
         /\ created = CreatedAt
         /\ signals_by_id = st.reg.by_id
         /\ signals_by_name = st.reg.by_name
         /\ next_sid = st.reg.next
         /\ buf = st.reg.buf
         /\ old_final = Absent
         /\ fs = [p \in {tmp_path, final_tmp, final_path} |->
                    IF p = final_path THEN File(sealed) ELSE Absent]
         /\ tmp_open = FALSE
         /\ chunks_written = Len(sess)
         /\ lock = [holder |-> <<>>, waiters |-> <<>>]
         /\ orphan = <<>>
         /\ running = FALSE
         /\ flush_task = "none"
         /\ calls = 0
         /\ stop_pc = "done"
         /\ entries = r.entries
         /\ build = [pc |-> "done", attempt |-> 1,
                     index_entries |-> PltReader(sealed).index]
         /\ fails = 0
         /\ tmp_removed = TRUE
         /\ recorded = st.recorded
         /\ nrec = st.n
         /\ clean_stop = TRUE
         /\ record_error = NoError
         /\ found_tmp = Absent
         /\ flushers = 0

ReaderNext ==
    \/ ReaderOpen
    \/ \E sid \in QuerySids : ReaderReadAll(sid)
    \/ \E sid \in QuerySids, t1 \in QueryTimes, t2 \in QueryTimes :
         ReaderIterTimeRange(sid, t1, t2)

ReaderSpecInit == SealedInit /\ ReaderInit /\ RegistryInit /\ StreamInit

\* PltReader on sealed files
SpecReader == ReaderSpecInit /\ [][ReaderNext]_vars

\* the calls that create generators: iter_chunks, and iter_time_range over
\* a range that holds every record or only the latest ones
InterleaveRanges == {<<0, MaxTs + 1>>, <<MaxTs, MaxTs + 1>>}

\* rd.iter_chunks(sid) / rd.iter_time_range(sid, t1, t2): generator i is
\* created
GenCall(i, kind, sid, t1, t2) ==
    /\ rd.open /\ rd.ok
    /\ gen[i].kind = "none"
    /\ gen' = [gen EXCEPT ![i] = NewGen(kind, rd, sid, t1, t2)]
    /\ UNCHANGED <<writer_vars, rd, q, fpos, registry_vars, stream_vars>>

\* next(g) on generator i, between two awaits of its consumer: the body
\* runs on the one thread of the event loop up to its next yield
GenNext(i) ==
    /\ gen[i].pc = "suspended"
    /\ LET st == GenStep(fs[final_path].data, rd.comp, gen[i], fpos)
       IN /\ fpos' = st.pos
          /\ gen' = [gen EXCEPT ![i].pc = st.pc,
                                ![i].es = st.es,
                                ![i].out = IF st.yields THEN Append(@, st.chunk)
                                           ELSE @]
    /\ UNCHANGED <<writer_vars, rd, q, registry_vars, stream_vars>>

\* sealed files whose every chunk holds one record
InterleaveInit ==
    /\ SealedInit /\ nrec = chunks_written
    /\ ReaderInit /\ RegistryInit /\ StreamInit

InterleaveNext ==
    \/ ReaderOpen
    \/ \E i \in 1 .. NumGens, sid \in QuerySids : GenCall(i, "iter_chunks", sid, 0, 0)
    \/ \E i \in 1 .. NumGens, sid \in QuerySids, t \in InterleaveRanges :
         GenCall(i, "iter_time_range", sid, t[1], t[2])
    \/ \E i \in 1 .. NumGens : GenNext(i)

\* generators over one PltReader, advanced in any order
SpecInterleave == InterleaveInit /\ [][InterleaveNext]_vars

RegistryNext == \E path \in Paths : read_file(path)

\* the signal registry
SpecRegistry == Init /\ [][RegistryNext]_vars

\* paths whose last dot is not the dot of an extension: a file named "csv",
\* the file ".csv", and "data.d/readme"
FacadePaths == Paths \cup {<<"csv">>, <<"", "csv">>, <<"data", "d/readme">>}

FacadeNext == \E path \in FacadePaths : read_file(path)

\* read_file calls on any of these paths
SpecFacade == Init /\ [][FacadeNext]_vars

StreamNext ==
    \/ \E path \in Paths : read_file(path)
    \/ \E signal_name \in StreamNames, it \in Iterations :
         websocket_endpoint(signal_name, it)
    \/ StreamSend
    \/ StreamSleep
    \/ StreamTerminate
    \/ StreamExcept
    \/ StreamClose

\* the registry and one websocket stream after another
SpecStream == Init /\ [][StreamNext]_vars

\* ====================================================================
\* Finalize on a temp-chunks file as found at the end of a session
\* ====================================================================
\* sessions of one signal whose every flush wrote one record
FinalizeSessions ==
    {s \in Sessions : \A i \in DOMAIN s : s[i].name = <<97>> /\ s[i].tss = <<1>>}

\* the offsets of the frames the scan finds in f
FrameOffsets(f) ==
    LET es == _scan_tmp_for_index_entries(f).entries
    IN {SumBytes([j \in 1 .. i - 1 |-> es[j].total_size]) : i \in DOMAIN es}

\* what open(self.tmp_path, "rb") may find where the session wrote f: f
\* itself, f cut short at any byte, f with the first byte of a frame
\* overwritten
TmpFound(f) ==
    {SubSeq(f, 1, n) : n \in 0 .. Len(f)}
      \cup {[f EXCEPT ![o + 1] = 0] : o \in FrameOffsets(f)}

\* the state in which stop_and_save closes the temp-chunks file: the
\* session's flushes are done, final_path is absent or holds an older file
FinalizeInit ==
    \E sess \in FinalizeSessions, old \in {Absent, File(OldFile)} :
      LET c == _pick_compression(compression)
          st == Replay(sess, c, NoSession)
      IN \E found \in TmpFound(st.tmp) :
         /\ comp = c
         /\ created = CreatedAt
         /\ signals_by_id = st.reg.by_id
         /\ signals_by_name = st.reg.by_name
         /\ next_sid = st.reg.next
         /\ buf = st.reg.buf
         /\ old_final = old
         /\ fs = [p \in {tmp_path, final_tmp, final_path} |->
                    IF p = tmp_path THEN File(found)
                    ELSE IF p = final_path THEN old ELSE Absent]
         /\ tmp_open = TRUE
         /\ chunks_written = Len(sess)
         /\ lock = [holder |-> <<>>, waiters |-> <<>>]
         /\ orphan = <<>>
         /\ running = FALSE
         /\ flush_task = "none"
         /\ calls = 0
         /\ stop_pc = "close"
         /\ entries = <<>>
         /\ build = NoBuild
         /\ fails = 0
         /\ tmp_removed = FALSE
         /\ recorded = st.recorded
         /\ nrec = st.n
         /\ clean_stop = TRUE
         /\ record_error = NoError
         /\ found_tmp = Absent
         /\ flushers = 0

FinalizeNext ==
    \/ StopScan
    \/ BuildOpen
    \/ BuildCopy
    \/ BuildReplace
    \/ BuildFail
    \/ StopCleanup

FinalizeSpecInit == FinalizeInit /\ ReaderInit /\ RegistryInit /\ StreamInit

\* stop_and_save from the close of the temp-chunks file on; the scan and
\* the finalize run in a worker thread that is scheduled until they end
SpecFinalize ==
    FinalizeSpecInit /\ [][FinalizeNext]_vars /\ WF_vars(FinalizeNext)

\* ====================================================================
\* Reader on a damaged file
\* ====================================================================
\* sessions whose every flush wrote one record with timestamp 1
DamagedSessions ==
    {s \in Sessions : \A i \in DOMAIN s : s[i].tss = <<1>>}

\* what open(path, "rb") may find where f was sealed: f itself, f without
\* its last byte, f with one byte altered
DamagedFiles(f) ==
    {f, SubSeq(f, 1, Len(f) - 1)}
      \cup {[f EXCEPT ![p] = (f[p] + 1) % 256] : p \in 1 .. Len(f)}

\* the time ranges asked for: one that covers every record, one that
\* covers none
DamagedRanges == {<<0, MaxTs>>, <<MaxTs, MaxTs>>}

\* the state after a session and a stop_and_save that returned normally
\* without removing the temp-chunks file, and damage to the sealed file
DamagedInit ==
    \E c \in {_pick_compression(n) : n \in CompressionNames},
       sess \in DamagedSessions :
      LET st == Replay(sess, c, NoSession)
          r == _scan_tmp_for_index_entries(st.tmp)
          sealed == Sealed(c, CreatedAt, st.reg.by_id, st.tmp)
      IN \E found \in DamagedFiles(sealed) :
         /\ comp = c
         /\ created = CreatedAt
         /\ signals_by_id = st.reg.by_id
         /\ signals_by_name = st.reg.by_name
         /\ next_sid = st.reg.next
         /\ buf = st.reg.buf
         /\ old_final = Absent
         /\ fs = [p \in {tmp_path, final_tmp, final_path} |->
                    IF p = final_path THEN File(found)
                    ELSE IF p = tmp_path THEN File(st.tmp) ELSE Absent]
         /\ tmp_open = FALSE
         /\ chunks_written = Len(sess)
         /\ lock = [holder |-> <<>>, waiters |-> <<>>]
         /\ orphan = <<>>
         /\ running = FALSE
         /\ flush_task = "none"
         /\ calls = 0
         /\ stop_pc = "done"
         /\ entries = r.entries
         /\ build = [pc |-> "done", attempt |-> 1,
                     index_entries |-> PltReader(sealed).index]
         /\ fails = 0
         /\ tmp_removed = FALSE
         /\ recorded = st.recorded
         /\ nrec = st.n
         /\ clean_stop = TRUE
         /\ record_error = NoError
         /\ found_tmp = Absent
         /\ flushers = 0

DamagedNext ==
    \/ ReaderOpen
    \/ \E sid \in QuerySids : ReaderReadAll(sid)
    \/ \E sid \in QuerySids : ReaderIterChunks(sid)
    \/ \E sid \in QuerySids, t \in DamagedRanges :
         ReaderIterTimeRange(sid, t[1], t[2])
    \/ ReaderCallEnds

DamagedSpecInit == DamagedInit /\ ReaderInit /\ RegistryInit /\ StreamInit

\* PltReader opened on a sealed file that may be damaged, and calls on it
\* one after another
SpecDamaged == DamagedSpecInit /\ [][DamagedNext]_vars

\* ====================================================================
\* The writer after stop_and_save has returned
\* ====================================================================
\* sessions of at most one flush, of one record
ReuseSessions ==
    {s \in Sessions : Len(s) <= 1 /\ \A i \in DOMAIN s : s[i].tss = <<1>>}

\* the writer object once stop_and_save has returned normally: the
\* temp-chunks file is closed, and removed unless os.remove failed
ReuseInit ==
    \E sess \in ReuseSessions, removed \in BOOLEAN :
      LET c == _pick_compression(compression)
          st == Replay(sess, c, NoSession)
          r == _scan_tmp_for_index_entries(st.tmp)
          sealed == Sealed(c, CreatedAt, st.reg.by_id, st.tmp)
      IN /\ comp = c
         /\ created = CreatedAt
         /\ signals_by_id = st.reg.by_id
         /\ signals_by_name = st.reg.by_name
         /\ next_sid = st.reg.next
         /\ buf = st.reg.buf
         /\ old_final = Absent
         /\ fs = [p \in {tmp_path, final_tmp, final_path} |->
                    IF p = final_path THEN File(sealed)
                    ELSE IF p = tmp_path /\ ~removed THEN File(st.tmp)
                    ELSE Absent]
         /\ tmp_open = FALSE
         /\ chunks_written = Len(sess)
         /\ lock = [holder |-> <<>>, waiters |-> <<>>]
         /\ orphan = <<>>
         /\ running = FALSE
         /\ flush_task = "none"
         /\ calls = 0
         /\ stop_pc = "idle"
         /\ entries = r.entries
         /\ build = [pc |-> "done", attempt |-> 1,
                     index_entries |-> PltReader(sealed).index]
         /\ fails = 0
         /\ tmp_removed = removed
         /\ recorded = st.recorded
         /\ nrec = st.n
         /\ clean_stop = TRUE
         /\ record_error = NoError
         /\ found_tmp = Absent
         /\ flushers = 0

\* the operations of the writer; no write reaches its second half, since
\* the temp-chunks file stays closed
ReuseNext ==
    \/ \E name \in Names, unit \in Units : AddSignalMeta(name, unit)
    \/ \E name \in Names, t \in Timestamps : record_point(FALSE, 0, name, t)
    \/ \E name \in Names, tss \in Batches : record_batch(FALSE, 0, name, tss)
    \/ start
    \/ _periodic_flush
    \/ WorkerStart
    \/ WorkerWriteHdr
    \/ OrphanWriteHdr
    \/ stop_and_save
    \/ StopScan
    \/ BuildOpen
    \/ BuildCopy
    \/ BuildReplace
    \/ BuildFail
    \/ StopCleanup

ReuseSpecInit == ReuseInit /\ ReaderInit /\ RegistryInit /\ StreamInit

\* a writer that is used on after its stop_and_save has returned normally
SpecReuse == ReuseSpecInit /\ [][ReuseNext]_vars

\* ====================================================================
\* Properties
\* ====================================================================
RECURSIVE FramesFrom(_, _, _)
\* the chunk frames completely present in file f from position pos on:
\* the sid of each, its records, its offset, size and header min / max
FramesFrom(f, c, pos) ==
    LET hb == ReadAt(f, pos + 4, CHUNK_HDR_SIZE)
        h == UnpackChunkHdr(hb)
        body == ReadAt(f, pos + 4 + CHUNK_HDR_SIZE, h.comp_len)
        raw == _decompress(body, c)
        recs == UnpackRecords(raw.data, 0, h.n)
        size == 4 + CHUNK_HDR_SIZE + h.comp_len
    IN IF \/ ReadAt(f, pos, 4) # CHUNK_MAGIC
          \/ Len(hb) # CHUNK_HDR_SIZE
          \/ Len(body) # h.comp_len
          \/ ~raw.ok
          \/ ~recs.ok
       THEN <<>>
       ELSE <<[sid |-> h.sid, recs |-> recs.recs, off |-> pos, size |-> size,
               mn |-> h.mn, mx |-> h.mx]>> \o FramesFrom(f, c, pos + size)

RECURSIVE RecsOfSid(_, _)
\* the records of the frames of one signal, in file order
RecsOfSid(frames, sid) ==
    IF frames = <<>> THEN <<>>
    ELSE (IF Head(frames).sid = sid THEN Head(frames).recs ELSE <<>>)
           \o RecsOfSid(Tail(frames), sid)

FinalData == fs[final_path].data
FinalReader == PltReader(FinalData)
FinalFrames == FramesFrom(FinalData, comp, _read_header(FinalData).pos)
FinalRecords(sid) == read_signal_all(FinalData, FinalReader, sid)

\* stop_and_save has returned normally
Returned == stop_pc = "done"
\* the rename has succeeded
Promoted == stop_pc \in {"cleanup", "done"}

\* how often record r is among recs
Occurrences(r, recs) == Cardinality({i \in 1 .. Len(recs) : recs[i] = r})

\* records in the order of the record calls (the value is the ordinal)
InCallOrder(recs) == \A i \in 1 .. Len(recs) - 1 : recs[i][2] < recs[i + 1][2]

\* f is header, chunk frames, index block and footer, and nothing else
CompleteFile(f) ==
    LET h == _read_header(f)
        x == _read_footer_and_index(f)
        frames == FramesFrom(f, h.comp, h.pos)
        chunks_end == IF frames = <<>> THEN h.pos
                      ELSE frames[Len(frames)].off + frames[Len(frames)].size
    IN /\ h.ok /\ x.ok
       /\ h.version = version
       /\ Len(x.index) = Len(frames)
       /\ UnLE(ReadAt(f, Len(f) - 8, 8)) = chunks_end
       /\ Len(f) = chunks_end + 8 + INDEX_ENTRY_SIZE * Len(frames) + FOOTER_SIZE

\* C1: after record calls that have all returned and a stop_and_save that
\* returned normally, read_signal_all on the final file gives, for every
\* signal, exactly the records recorded for it, in the order recorded.
C1_RoundTrip ==
    (Returned /\ clean_stop) =>
       \A sid \in DOMAIN recorded :
          /\ FinalRecords(sid).ok
          /\ FinalRecords(sid).recs = recorded[sid]

\* C2: every record whose record call returned before stop_and_save was
\* invoked is in the final file exactly once, wherever the periodic
\* flusher stood when it was cancelled.
C2_DrainsEverything ==
    (Returned /\ clean_stop) =>
       \A sid \in DOMAIN recorded : \A i \in 1 .. Len(recorded[sid]) :
          Occurrences(recorded[sid][i], RecsOfSid(FinalFrames, sid)) = 1

\* C3: the chunks of a signal stand in the final file in the order of the
\* record calls: no later snapshot of a signal precedes an earlier one.
C3_PerSignalOrder ==
    (Promoted /\ clean_stop) =>
       \A sid \in DOMAIN recorded : InCallOrder(RecsOfSid(FinalFrames, sid))

\* C4 (as amended): when stop_and_save has returned normally the file at
\* final_path exists and is a complete PLTX file holding every chunk of
\* the temp-chunks file, and the temp-chunks file is gone unless its
\* os.remove failed.
C4_SealedPostcondition ==
    Returned =>
       /\ fs[final_path].exists
       /\ CompleteFile(FinalData)
       /\ Len(FinalFrames) = Len(entries)
       /\ \A i \in 1 .. Len(entries) :
             /\ FinalFrames[i].sid = entries[i].sid
             /\ FinalFrames[i].size = entries[i].total_size
       /\ fs[tmp_path].exists = ~tmp_removed

\* C4 witness: a normal return with two chunks sealed and the temp gone
C4_Witness ==
    /\ Returned
    /\ Len(entries) >= 2
    /\ fs[final_path].exists
    /\ ~fs[tmp_path].exists

\* C4 (as stated): when stop_and_save has returned normally the final file
\* exists and is complete, and the temp-chunks file no longer exists.
C4_AsStated ==
    Returned =>
       /\ fs[final_path].exists
       /\ CompleteFile(FinalData)
       /\ ~fs[tmp_path].exists

\* C5: until the rename succeeds, whatever attempts failed before it,
\* final_path holds what it held before stop_and_save (absent or the old
\* file); once it is replaced it holds a complete file.
C5_AtomicPromote ==
    /\ ~Promoted => fs[final_path] = old_final
    /\ Promoted => fs[final_path].exists /\ CompleteFile(FinalData)

\* C5 witness: an attempt failed, the next one has written part of
\* {final_path}.part, and the old file is still at final_path
C5_Witness ==
    /\ stop_pc = "build" /\ build.pc = "copy"
    /\ fails > 0
    /\ fs[final_tmp].exists /\ fs[final_tmp].data # <<>>
    /\ old_final.exists
    /\ Len(entries) >= 1

\* the least and the greatest timestamp of a chunk's records
TsOf(recs) == {recs[i][1] : i \in 1 .. Len(recs)}
LeastTs(recs) == CHOOSE t \in TsOf(recs) : \A u \in TsOf(recs) : t <= u
GreatestTs(recs) == CHOOSE t \in TsOf(recs) : \A u \in TsOf(recs) : t >= u

\* C6: in a sealed file every index entry points at a CHNK frame of the
\* entry's sid whose records have the entry's min_ts as least and max_ts
\* as greatest timestamp, and the index has one entry per chunk frame.
C6_IndexSound ==
    Promoted =>
       LET idx == FinalReader.index
       IN /\ Len(idx) = Len(FinalFrames)
          /\ \A i \in 1 .. Len(idx) :
                LET fr == FramesFrom(FinalData, comp, idx[i].off)
                IN /\ ReadAt(FinalData, idx[i].off, 4) = CHUNK_MAGIC
                   /\ fr # <<>>
                   /\ fr[1].sid = idx[i].sid
                   /\ fr[1].recs # <<>>
                   /\ idx[i].mn = LeastTs(fr[1].recs)
                   /\ idx[i].mx = GreatestTs(fr[1].recs)
                   /\ idx[i].off = FinalFrames[i].off

\* C6 witness: a sealed file with two chunks, one spanning two timestamps
C6_Witness ==
    /\ Promoted
    /\ Len(FinalReader.index) >= 2
    /\ \E i \in 1 .. Len(FinalReader.index) :
          FinalReader.index[i].mn < FinalReader.index[i].mx

\* --------------------------------------------------------------- reader
\* the index entry of the chunk at offset off
EntryAt(index, off) ==
    CHOOSE e \in {index[i] : i \in 1 .. Len(index)} : e.off = off

Greater(a, b) == IF a > b THEN a ELSE b
Lesser(a, b) == IF a < b THEN a ELSE b

\* no timestamp lies both in [mn, mx] and in [t1, t2]
Disjoint(mn, mx, t1, t2) == Greater(mn, t1) > Lesser(mx, t2)

\* the query made is an iter_time_range
RangeQueried == q.op = "iter_time_range"

\* C7: the records iter_time_range(sid, t1, t2) yields, chunk after chunk,
\* are the records of iter_chunks(sid) with t1 <= ts <= t2, in that order.
C7_TimeRangeEquivalence ==
    RangeQueried =>
       LET ic == iter_chunks(FinalData, rd, q.sid)
       IN /\ q.ok /\ ic.ok
          /\ Flatten(q.chunks) =
               SelectSeq(Flatten(ic.chunks),
                         LAMBDA r : q.t1 <= r[1] /\ r[1] <= q.t2)

\* C7 witness: a query that yields some of the signal's records, not all
C7_Witness ==
    /\ RangeQueried
    /\ Flatten(q.chunks) # <<>>
    /\ Len(Flatten(q.chunks)) <
         Len(Flatten(iter_chunks(FinalData, rd, q.sid).chunks))

C9_UniquePublicNames ==
    /\ \A i, j \in 1 .. Len(returned) :
          i < j => returned[i].public # returned[j].public
    /\ \A i \in 1 .. Len(returned) :
          returned[i].present =>
             returned[i].public =
                returned[i].orig \o "[" \o ToString(returned[i].norig + 1) \o "]"

\* C10: every public name read_file(path) returned still resolves to the
\* reader of that path and to the signal's original name.
C10_StableResolution ==
    \A i \in 1 .. Len(returned) :
       /\ returned[i].public \in DOMAIN signal_map
       /\ signal_map[returned[i].public].path = returned[i].path
       /\ signal_map[returned[i].public].orig = returned[i].orig

\* -------------------------------------------------------------- streams
\* the rows of the file the stream reads, in file order
RowsStreamed == Flatten(websocket.src.chunks)

\* one data message per row with seq 0, 1, ..., then the terminator
ExpectedStream ==
    [i \in 1 .. Len(RowsStreamed) |-> DataMessage(RowsStreamed[i], i - 1)]
    \o <<Terminator(Len(RowsStreamed))>>

IsPrefix(s, t) == Len(s) <= Len(t) /\ \A i \in DOMAIN s : s[i] = t[i]

StreamErrors == SelectSeq(websocket.sent, LAMBDA m : m.error)
StreamTerminators == SelectSeq(websocket.sent, LAMBDA m : m.end_flag)

\* C11: for a registered public name whose file reads without error, the
\* messages sent are at every moment a prefix of: one data message per row
\* in file order with end_flag false and seq 0 .. n-1, then one terminator
\* with null timestamp and value and seq n; the socket is closed only after
\* the terminator, and the closed stream is exactly that sequence
C11_StreamSuccess ==
    (websocket.registered /\ ~websocket.src.fails) =>
        /\ IsPrefix(websocket.sent, ExpectedStream)
        /\ websocket.closed => websocket.sent = ExpectedStream
        /\ websocket.pc = "closed" => websocket.closed

\* a closed stream of a file of two non-empty chunks that read without error
C11_Witness ==
    /\ websocket.pc = "closed"
    /\ websocket.registered /\ ~websocket.src.fails
    /\ Len(websocket.src.chunks) = MaxStreamChunks
    /\ \A i \in DOMAIN websocket.src.chunks : websocket.src.chunks[i] # <<>>
    /\ Len(websocket.sent) > MaxStreamChunks + 1

\* C12: when the public name is not registered or reading fails, no
\* terminator is ever sent, at most one error message is sent and nothing
\* follows it, and the closed stream ends with exactly one error message;
\* no stream holds both an error message and a terminator
C12_StreamError ==
    /\ (~websocket.registered \/ websocket.src.fails) =>
          /\ StreamTerminators = <<>>
          /\ Len(StreamErrors) <= 1
          /\ StreamErrors # <<>> =>
                websocket.sent[Len(websocket.sent)] = ErrorMessage
          /\ websocket.pc = "closed" =>
                websocket.closed /\ Len(StreamErrors) = 1
          /\ websocket.closed => websocket.pc = "closed"
    /\ ~(StreamErrors # <<>> /\ StreamTerminators # <<>>)

\* a closed stream whose reading failed after rows had been sent
C12_Witness ==
    /\ websocket.pc = "closed"
    /\ websocket.registered /\ websocket.src.fails
    /\ Len(websocket.sent) > 2
    /\ Len(StreamErrors) = 1

\* ------------------------------------------------ temp-file exclusion
\* a worker thread is inside _write for the first job of jobs
Writing(jobs) == jobs # <<>> /\ jobs[1].phase \in {"running", "hdr_written"}

\* the bytes of the temp-chunks file after its last complete frame
TmpTail ==
    LET f == fs[tmp_path].data
        frames == FramesFrom(f, comp, 0)
        end == IF frames = <<>> THEN 0
               ELSE frames[Len(frames)].off + frames[Len(frames)].size
    IN SubSeq(f, end + 1, Len(f))

\* the header bytes a write in progress has put at the end of the file
HeaderInProgress(jobs) ==
    IF jobs # <<>> /\ jobs[1].phase = "hdr_written"
    THEN ChunkHdr(jobs[1].sid, jobs[1].recs, comp) ELSE <<>>

\* C13: at every moment at most one _write is in progress on the
\* temp-chunks file, and the file is a sequence of contiguous chunk frames
\* followed by nothing but the header of the one write in progress, as
\* long as the file is open for writing; also after stop_and_save
\* cancelled the flusher in mid-write
C13_TempMutualExclusion ==
    /\ ~(Writing(lock.holder) /\ Writing(orphan))
    /\ tmp_open =>
          TmpTail \in {<<>>, HeaderInProgress(lock.holder), HeaderInProgress(orphan)}

\* ------------------------------------------------------- finalize retry
\* C14: a failure of an attempt to write .part or to rename it is never
\* surfaced to the caller: once _build_final_from_tmp has started,
\* stop_and_save does not end with an error, however many attempts fail
\* (it ends only by an attempt that succeeds)
C14_FinalizeRetry ==
    build.attempt > 0 => stop_pc # "failed"

\* ------------------------------------------------- corrupt temp file
RECURSIVE MalformedFrom(_, _)
\* f holds, from position pos on, a frame that is not a well-formed chunk:
\* wrong magic, incomplete chunk header, or payload shorter than comp_len
MalformedFrom(f, pos) ==
    LET hb == ReadAt(f, pos + 4, CHUNK_HDR_SIZE)
        comp_len == UnpackChunkHdr(hb).comp_len
        body == pos + 4 + CHUNK_HDR_SIZE
    IN IF pos >= Len(f) THEN FALSE
       ELSE IF ReadAt(f, pos, 4) # CHUNK_MAGIC THEN TRUE
       ELSE IF Len(hb) # CHUNK_HDR_SIZE THEN TRUE
       ELSE IF Len(ReadAt(f, body, comp_len)) # comp_len THEN TRUE
       ELSE MalformedFrom(f, body + comp_len)

\* the closed temp-chunks file is in place and malformed
TmpCorrupt == fs[tmp_path].exists /\ MalformedFrom(fs[tmp_path].data, 0)

\* C15: with a malformed frame in the temp-chunks file, stop_and_save never
\* gets to the rename or to a normal return, final_path keeps the content
\* it had (absent or the older file), the temp file stays in place as it
\* is, and stop_and_save eventually ends with an error
C15_CorruptionAborts ==
    /\ [](TmpCorrupt =>
            /\ stop_pc \in {"close", "build", "failed"}
            /\ build.pc \in {"none", "open", "copy", "raised"}
            /\ fs[final_path] = old_final)
    /\ [][TmpCorrupt => TmpCorrupt']_vars
    /\ (TmpCorrupt ~> stop_pc = "failed")

\* stop_and_save has ended with an error on a temp file whose last payload
\* is short, which the scan lets pass and every copy rejects
C15_Witness ==
    /\ TmpCorrupt
    /\ stop_pc = "failed"
    /\ build.pc = "raised"
    /\ fs[final_path] = old_final

\* ------------------------------------------------------- damaged files
\* the offsets at which a call that ran to its end has read chunks
OffsetsRead ==
    IF q.op = "iter_time_range" THEN q.touched
    ELSE [i \in DOMAIN IndexOf(rd.index, q.sid) |-> IndexOf(rd.index, q.sid)[i].off]

\* the chunk at off decompresses to a length other than its raw_len
LengthMismatch(off) ==
    LET hb == ReadAt(FinalData, off + 4, CHUNK_HDR_SIZE)
        h == UnpackChunkHdr(hb)
        raw == _decompress(ReadAt(FinalData, off + 4 + CHUNK_HDR_SIZE, h.comp_len),
                           rd.comp)
    IN Len(hb) = CHUNK_HDR_SIZE /\ raw.ok /\ Len(raw.data) # h.raw_len

\* C16: a call of iter_chunks, iter_time_range or read_signal_all that
\* decompresses a chunk whose decoded length differs from the raw_len of
\* its header fails: no such call runs to its end
C16_DecodedLengthCheck ==
    (q.op \in {"iter_chunks", "iter_time_range", "read_signal_all"} /\ q.ok) =>
        \A i \in DOMAIN OffsetsRead : ~LengthMismatch(OffsetsRead[i])

\* the file that stop_and_save sealed, before any damage
Pristine == Sealed(comp, created, signals_by_id, fs[tmp_path].data)

\* the index_offset field of the footer found in the file
IndexOffsetFound == UnLE(ReadAt(FinalData, Len(FinalData) - FOOTER_SIZE + 4, 8))

\* the sid field of the chunk header at off
SidAt(off) == UnLE(ReadAt(FinalData, off + 4, 4))

\* C17: a reader opens only a file that starts with PLTX, has FTER at
\* file_size - 12 and IDXT at the index offset of the footer, so a valid
\* file without its last byte does not open; iter_chunks and
\* iter_time_range run to their end only if every indexed offset they read
\* starts with CHNK and carries the requested sid
C17_MagicAndSid ==
    /\ (rd.open /\ rd.ok) =>
          /\ ReadAt(FinalData, 0, 4) = MAGIC
          /\ ReadAt(FinalData, Len(FinalData) - FOOTER_SIZE, 4) = FOOTER_MAGIC
          /\ ReadAt(FinalData, IndexOffsetFound, 4) = INDEX_MAGIC
    /\ (rd.open /\ FinalData = SubSeq(Pristine, 1, Len(Pristine) - 1)) => ~rd.ok
    /\ (q.op \in {"iter_chunks", "iter_time_range"} /\ q.ok) =>
          \A i \in DOMAIN OffsetsRead :
             /\ ReadAt(FinalData, OffsetsRead[i], 4) = CHUNK_MAGIC
             /\ SidAt(OffsetsRead[i]) = q.sid

\* iter_time_range has raised at a chunk whose magic is damaged
C17_Witness ==
    /\ q.op = "iter_time_range"
    /\ ~q.ok
    /\ q.touched # <<>>
    /\ ReadAt(FinalData, q.touched[Len(q.touched)], 4) # CHUNK_MAGIC

\* the reader as __init__ built it from the file found
ReaderAsOpened ==
    LET r == FinalReader
    IN [open |-> TRUE, ok |-> r.ok, version |-> r.version, comp |-> r.comp,
        created |-> r.created, signals |-> r.signals, index |-> r.index]

\* the bytes of the chunk frame that the sealed file holds at off
FrameAt(f, off) ==
    LET h == UnpackChunkHdr(ReadAt(Pristine, off + 4, CHUNK_HDR_SIZE))
    IN ReadAt(f, off, 4 + CHUNK_HDR_SIZE + h.comp_len)

\* the chunks of sid are intact: header, signal table and index are read as
\* they were sealed, and every chunk frame of sid holds the sealed bytes
Intact(sid) ==
    LET sealed == PltReader(Pristine)
    IN /\ FinalReader = sealed
       /\ \A i \in DOMAIN sealed.index :
             sealed.index[i].sid = sid =>
                FrameAt(FinalData, sealed.index[i].off)
                  = FrameAt(Pristine, sealed.index[i].off)

\* the records of sid that the session appended, in call order
RecordsOf(sid) == IF sid \in DOMAIN recorded THEN recorded[sid] ELSE <<>>

\* C18: once a call on a reader has failed, the reader still holds the
\* header, signal table and index it was opened with, and every later call
\* for a signal whose chunks are intact returns exactly the records of that
\* signal (those within [t1, t2] for iter_time_range)
C18_ErrorsPerCall ==
    /\ (rd.open /\ (q.after_failure \/ ~q.ok)) => rd = ReaderAsOpened
    /\ (q.after_failure /\ q.op # "none" /\ Intact(q.sid)) =>
          /\ q.ok
          /\ Flatten(q.chunks) =
               IF q.op = "iter_time_range"
               THEN SelectSeq(RecordsOf(q.sid), LAMBDA r : InRange(r, q.t1, q.t2))
               ELSE RecordsOf(q.sid)

\* after a call that failed on a damaged chunk, read_signal_all has
\* returned the records of another signal, whose chunks are intact
C18_Witness ==
    /\ q.after_failure
    /\ q.op = "read_signal_all"
    /\ Intact(q.sid)
    /\ q.ok
    /\ Flatten(q.chunks) # <<>>
    /\ FinalData # Pristine

\* ------------------------------------------------------- registration
\* C19: no record_point or record_batch call fails, whether the signal is
\* given as a name or as an integer and whether it is registered or not,
\* and every signal that records were given for is registered and has a
\* buffer
C19_ImplicitRegistration ==
    /\ record_error = NoError
    /\ \A sid \in DOMAIN recorded :
          sid \in DOMAIN signals_by_id /\ sid \in DOMAIN buf

\* name -> sid and sid -> metadata are inverse bijections
InverseBijections ==
    /\ \A name \in DOMAIN signals_by_name :
          /\ signals_by_name[name] \in DOMAIN signals_by_id
          /\ signals_by_id[signals_by_name[name]].name = name
    /\ \A sid \in DOMAIN signals_by_id :
          /\ signals_by_id[sid].name \in DOMAIN signals_by_name
          /\ signals_by_name[signals_by_id[sid].name] = sid

\* C20: add_signal_meta with a known name returns the existing sid and
\* changes neither registry nor buffers, whatever attributes it is given;
\* with a new name it returns the next of the sids 1, 2, 3, ...; the sids
\* registered are 1 .. next_sid - 1 without gap, name -> sid and
\* sid -> metadata are inverse bijections and every sid has a buffer
C20_Registration ==
    /\ \A name \in Names, unit \in Units \cup {<<>>} :
          LET r == add_signal_meta(name, unit, <<>>, <<>>, Reg)
          IN IF name \in DOMAIN signals_by_name
             THEN r = [Reg EXCEPT !.sid = signals_by_name[name]]
             ELSE /\ r.sid = Cardinality(DOMAIN signals_by_name) + 1
                  /\ r.sid \notin DOMAIN signals_by_id
    /\ DOMAIN signals_by_id = 1 .. next_sid - 1
    /\ DOMAIN buf = DOMAIN signals_by_id
    /\ InverseBijections

\* a signal registered with a unit was then recorded by name, which calls
\* add_signal_meta again with an empty unit, and a second name was
\* registered after it
C20_Witness ==
    /\ next_sid = 3
    /\ signals_by_id[1].unit # <<>>
    /\ recorded[1] # <<>>
    /\ signals_by_id[2].unit = <<>>

\* ------------------------------------------------------ threshold flush
\* f ends with the bytes tail
EndsWith(f, tail) ==
    Len(f) >= Len(tail) /\ SubSeq(f, Len(f) - Len(tail) + 1, Len(f)) = tail

\* the step in which the _write of a threshold flush ends normally and the
\* record_* call that started the flush resumes and returns
ThresholdCallReturns ==
    /\ lock.holder # <<>>
    /\ lock.holder[1].owner = "producer"
    /\ lock.holder[1].phase = "hdr_written"
    /\ tmp_open
    /\ lock'.holder # lock.holder

\* C21: when a record_point or record_batch call that found its buffer at
\* chunk_records or more returns, the records it found there are the last
\* chunk frame of the temp file and none of them is in the buffer
C21_ThresholdFlushSync ==
    [][ThresholdCallReturns =>
         LET job == lock.holder[1]
         IN /\ EndsWith(fs'[tmp_path].data,
                        ChunkHdr(job.sid, job.recs, comp)
                          \o ChunkPayload(job.recs, comp))
            /\ \A i \in DOMAIN buf'[job.sid], k \in DOMAIN job.recs :
                  buf'[job.sid][i] # job.recs[k]]_vars

\* ------------------------------------------------------------ chunk size
\* the chunk frames completely written to the temp-chunks file
TmpFrames == FramesFrom(fs[tmp_path].data, comp, 0)

\* C22: every chunk frame of the temp file, and every chunk frame of a
\* file at final_path that the session sealed, holds at least 1 and at
\* most chunk_records records
C22_ChunkSizeBound ==
    /\ \A i \in DOMAIN TmpFrames :
          Len(TmpFrames[i].recs) \in 1 .. ChunkRecords
    /\ Promoted =>
          \A i \in DOMAIN FinalFrames :
             Len(FinalFrames[i].recs) \in 1 .. ChunkRecords

\* ------------------------------------------------------ chunk boundaries
\* the record of the session that carries value k: <<sid, ts>>
RecordNumbered(k) ==
    LET at == CHOOSE p \in (DOMAIN recorded) \X (1 .. MaxRecords) :
                 /\ p[2] <= Len(recorded[p[1]])
                 /\ recorded[p[1]][p[2]][2] = k
    IN <<at[1], recorded[at[1]][at[2]][1]>>

\* the record calls of the session in call order, as a session that is
\* given them one by one with chunk_records = 1 and without a flusher
ReferenceSession ==
    [k \in 1 .. nrec |->
       [name |-> signals_by_id[RecordNumbered(k)[1]].name,
        tss |-> <<RecordNumbered(k)[2]>>]]

\* what read_signal_all returns for a name on the file that the reference
\* session seals
ReferenceRecords(name) ==
    LET st == Replay(ReferenceSession, comp, NoSession)
        f == Sealed(comp, created, st.reg.by_id, st.tmp)
    IN IF name \in DOMAIN st.reg.by_name
       THEN read_signal_all(f, PltReader(f), st.reg.by_name[name]).recs
       ELSE <<>>

\* C23: after record calls that have all returned and a stop_and_save that
\* returned normally, read_signal_all on the sealed file of the session
\* returns, for every signal, what it returns on the file of a session that
\* was given the same record calls with another chunk_records and no
\* periodic flusher
C23_ChunkBoundaryInvariance ==
    (Returned /\ clean_stop) =>
       \A name \in DOMAIN signals_by_name :
          FinalRecords(signals_by_name[name]).recs = ReferenceRecords(name)

\* ------------------------------------------------------- sealed file
\* C24: once stop_and_save has returned normally, no operation on the same
\* writer (add_signal_meta, record_point, record_batch, start, the flusher,
\* another stop_and_save) changes the file at final_path, whether the
\* temp-chunks file was removed or not
C24_SealedImmutable ==
    [][fs'[final_path] = fs[final_path]]_vars

\* ------------------------------------------------------- unsupported format
\* C25: read_file returns None for every path whose extension is not one
\* of AVAILABLE_FORMATS, never raises for an unsupported path, and returns
\* None for exactly the paths the Reader rejects as unsupported
C25_UnsupportedFormat ==
    read_result.result # "none" =>
       /\ Extension(read_result.path) \notin AVAILABLE_FORMATS
             => read_result.result = "None"
       /\ read_result.result # "ValueError"
       /\ read_result.result = "None" <=> get_engine(read_result.path) = "unknown"

\* ------------------------------------------------------- verbatim copy
\* C26: when _build_final_from_tmp has promoted the file, the bytes between
\* its header and its index are the bytes of the temp-chunks file, so the
\* chunk frames are those of the temp file in the same order, and the
\* index has one entry per frame, in that order, with the sid of the frame
\* and the offset at which the frame starts in the final file
C26_VerbatimCopy ==
    stop_pc = "cleanup" =>
       LET tmp == fs[tmp_path].data
           first == _read_header(FinalData).pos
           index == FinalReader.index
       IN /\ ReadAt(FinalData, first, Len(tmp)) = tmp
          /\ IndexOffsetFound = first + Len(tmp)
          /\ Len(index) = Len(TmpFrames)
          /\ \A i \in DOMAIN index :
                /\ index[i].sid = TmpFrames[i].sid
                /\ index[i].off = first + TmpFrames[i].off
                /\ ReadAt(FinalData, index[i].off, TmpFrames[i].size)
                     = ReadAt(tmp, TmpFrames[i].off, TmpFrames[i].size)

\* a temp file of two frames of different signals has been copied
C26_Witness ==
    /\ stop_pc = "cleanup"
    /\ Len(TmpFrames) = 2
    /\ TmpFrames[1].sid # TmpFrames[2].sid
    /\ Len(FinalReader.index) = 2

\* ----------------------------------------------------- periodic flush
\* the records of the session that sit in a buffer or in a temp frame,
\* named by their value (the k-th record of the session carries value k)
Buffered(k) ==
    \E sid \in DOMAIN buf : \E i \in DOMAIN buf[sid] : buf[sid][i][2] = k

InTmpChunk(k) ==
    LET frames == TmpFrames
    IN \E i \in DOMAIN frames :
          LET sid == frames[i].sid
              recs == frames[i].recs
          IN /\ sid \in DOMAIN recorded
             /\ \E j \in DOMAIN recs :
                   /\ recs[j][2] = k
                   /\ \E n \in DOMAIN recorded[sid] : recorded[sid][n] = recs[j]

\* C27: while the writer is running (start called, stop_and_save not) and
\* the temp writes succeed, every record that sits in a buffer is
\* eventually part of a chunk frame of the temp file, whether or not any
\* further record call is made and whether or not the buffer reaches
\* chunk_records
C27_PeriodicFlushLiveness ==
    \A k \in 1 .. MaxRecords : (running /\ Buffered(k)) ~> InTmpChunk(k)

\* the flusher, not a threshold flush, has written a chunk shorter than
\* chunk_records while nothing else was buffered or pending
C27_Witness ==
    /\ running
    /\ flush_task = "sleep"
    /\ lock.holder = <<>>
    /\ nrec = 1
    /\ InTmpChunk(1)

\* -------------------------------------------------------- final header
RECURSIVE HeaderSids(_, _, _)
\* the sids of the k metadata records that start at position pos of f, in
\* file order
HeaderSids(f, pos, k) ==
    IF k = 0 THEN <<>>
    ELSE LET nm == _rstr(f, pos + 4)
             un == _rstr(f, nm.pos)
             ds == _rstr(f, un.pos)
             sr == _rstr(f, ds.pos)
         IN <<UnLE(ReadAt(f, pos, 4))>> \o HeaderSids(f, sr.pos, k - 1)

\* what the header of the promoted file says, read as PltReader reads it
HeaderReflectsSession ==
    LET h == _read_header(FinalData)
        sig_count == UnLE(ReadAt(FinalData, HEADER_PREFIX_SIZE - 2, 2))
        sids == HeaderSids(FinalData, HEADER_PREFIX_SIZE, sig_count)
    IN /\ h.ok
       /\ h.version = 2
       /\ h.comp = comp
       /\ h.created = CreatedAt
       /\ sig_count = Cardinality(DOMAIN signals_by_id)
       /\ Len(sids) = sig_count
       /\ \A i \in 1 .. Len(sids) - 1 : sids[i] < sids[i + 1]
       /\ h.signals = signals_by_id
       \* every chunk of the file is compressed with the code of the header
       /\ Len(FramesFrom(FinalData, h.comp, h.pos)) = Len(FinalReader.index)

\* C28: the header of a sealed file carries version 2, the compression
\* code and the created value of the constructor, which no step of the
\* writer changes and with which every chunk is compressed, sig_count equal
\* to the number of registered signals, and one metadata record per
\* registered signal in ascending sid order, with or without records
C28_FinalHeader ==
    /\ [](Promoted => HeaderReflectsSession)
    /\ [][comp' = comp /\ created' = created]_vars

\* a sealed file of two signals, one of them registered by add_signal_meta
\* and never recorded, with a chunk of the other, compression "none"
C28_Witness ==
    /\ Promoted
    /\ comp = COMP_NONE
    /\ Cardinality(DOMAIN signals_by_id) = 2
    /\ \E sid \in DOMAIN signals_by_id :
          /\ signals_by_id[sid].unit # <<>>
          /\ recorded[sid] = <<>>
    /\ Len(FinalReader.index) >= 1

\* ------------------------------------------------------ stale temp data
\* the records of a frame were appended in this session to the frame's signal
OfThisSession(frame) ==
    /\ frame.sid \in DOMAIN recorded
    /\ \A j \in DOMAIN frame.recs :
          \E n \in DOMAIN recorded[frame.sid] :
             recorded[frame.sid][n] = frame.recs[j]

\* C29: whatever file an earlier session left at tmp_path, the sealed file
\* of this session holds exactly the chunks this session wrote to its temp
\* file: as many frames as writes that succeeded, each made of records of
\* this session, none of them a chunk of the file found at construction
C29_StaleTmpDiscarded ==
    Promoted =>
       LET frames == FinalFrames
       IN /\ Len(frames) = chunks_written
          /\ Len(FinalReader.index) = chunks_written
          /\ \A i \in DOMAIN frames :
                /\ OfThisSession(frames[i])
                /\ frames[i].recs # StaleRecords

\* a session constructed over a stale temp file has sealed a chunk
C29_Witness ==
    /\ Promoted
    /\ found_tmp = File(StaleChunk)
    /\ chunks_written >= 1
    /\ Len(FinalFrames) >= 1

\* ------------------------------------------------- failed append, no loss
\* the snapshots that flushes in progress hold: the jobs at the lock and
\* the detached write
InFlight == lock.holder \o lock.waiters \o orphan

\* record r of signal sid is in the buffer, in a snapshot or in a temp frame
HeldOrWritten(sid, r) ==
    \/ \E i \in DOMAIN buf[sid] : buf[sid][i] = r
    \/ \E i \in DOMAIN InFlight :
          /\ InFlight[i].sid = sid
          /\ \E j \in DOMAIN InFlight[i].recs : InFlight[i].recs[j] = r
    \/ LET frames == TmpFrames
       IN \E i \in DOMAIN frames :
             /\ frames[i].sid = sid
             /\ \E j \in DOMAIN frames[i].recs : frames[i].recs[j] = r

\* C30: as long as the temp-chunks file is on disk, every record appended
\* in the session is in its signal's buffer, in the snapshot of a flush
\* still in progress, or in a chunk frame of the temp file: a flush that
\* fails or is cancelled leaves its records with the writer
C30_NoRecordLoss ==
    (fs[tmp_path].exists /\ ~tmp_removed) =>
       \A sid \in DOMAIN recorded :
          \A n \in DOMAIN recorded[sid] : HeldOrWritten(sid, recorded[sid][n])

\* --------------------------------------------------- retry of finalize
\* C31: whatever number of attempts of _build_final_from_tmp failed before
\* the one that succeeded, the promoted file is byte for byte the file
\* that one attempt without failure assembles from the temp-chunks file
\* and the registry, and nothing is left at final_tmp
C31_RetryIdempotent ==
    stop_pc = "cleanup" =>
       /\ FinalData = Pristine
       /\ ~fs[final_tmp].exists

\* an attempt has succeeded after a failed one that had left a whole file
\* with chunks at final_tmp
C31_Witness ==
    /\ stop_pc = "cleanup"
    /\ build.attempt >= 2
    /\ fails >= 1
    /\ Len(build.index_entries) >= 1

\* -------------------------------------------------------- single flusher
\* C32: at most one periodic flusher task exists, no step taken on a
\* running writer that stays running (a start() among them) adds or ends
\* one, and once stop_and_save has returned none is left and
\* self._flush_task is None
C32_SingleFlusher ==
    /\ [](flushers <= 1)
    /\ [](Returned => (flushers = 0 /\ flush_task = "none" /\ ~running))
    /\ [][(running /\ running') => flushers' = flushers]_vars

\* stop_and_save has returned on a writer whose flusher had written a
\* chunk: two records of one signal, below chunk_records each time, are
\* in two chunks, the first of which only a tick of the flusher can have
\* flushed
C32_Witness ==
    /\ Returned
    /\ flushers = 0
    /\ nrec = 2
    /\ Cardinality(DOMAIN recorded) = 1
    /\ chunks_written = 2
    /\ Len(FinalReader.index) = 2

\* ------------------------------------------------- interleaved iteration
\* what generator g yields when it is consumed alone, from its creation to
\* its end or its exception
Alone(g) ==
    LET r == IF g.kind = "iter_chunks"
             THEN iter_chunks(FinalData, rd, g.sid)
             ELSE iter_time_range(FinalData, rd, g.sid, g.t1, g.t2)
    IN [ok |-> r.ok, chunks |-> r.chunks]

\* C33: whatever the order in which the generators over one PltReader are
\* advanced, each has yielded a prefix of the chunks it yields when
\* consumed alone, and it ends, or raises, exactly after all of them
C33_InterleavedIteration ==
    \A i \in 1 .. NumGens :
       gen[i].kind # "none" =>
          /\ IsPrefix(gen[i].out, Alone(gen[i]).chunks)
          /\ gen[i].pc = "ended" =>
                (Alone(gen[i]).ok /\ gen[i].out = Alone(gen[i]).chunks)
          /\ gen[i].pc = "raised" =>
                (~Alone(gen[i]).ok /\ gen[i].out = Alone(gen[i]).chunks)

\* two generators over the two chunks of one signal: the first is suspended
\* after its first chunk with the second still to read, and the other,
\* advanced meanwhile to its end, has left the handle elsewhere
C33_Witness ==
    /\ gen[1].kind = "iter_chunks"
    /\ gen[2].kind = "iter_time_range"
    /\ gen[1].sid = gen[2].sid
    /\ gen[1].pc = "suspended"
    /\ Len(gen[1].out) = 1
    /\ Len(gen[1].es) = 1
    /\ gen[1].es[1].off # fpos
    /\ gen[2].pc = "ended"
    /\ Len(gen[2].out) = 2

====
